---- MODULE Spec2Model ----
(***************************************************************************)
(* A model of the GSD container engine of gsd.c: the file (header, index,  *)
(* namelist, payload), the handle, and the operations open, write_chunk,   *)
(* end_frame, close, find_chunk, read_chunk and find_matching_chunk_name.  *)
(*                                                                         *)
(* The file is a sequence of cells addressed by offset.  One cell stands   *)
(* for sizeof(struct gsd_header), one for sizeof(struct gsd_index_entry),  *)
(* one for sizeof(struct gsd_namelist_entry), and one for each payload     *)
(* byte.  A cell of zero bytes is Zero whatever it is later read as.       *)
(* Names are sequences of characters (small integers); the empty sequence  *)
(* is the empty string.                                                    *)
(***************************************************************************)
EXTENDS Integers, Sequences, FiniteSets, TLC

(* ------------------------------ bounds --------------------------------- *)

\* Initial index size (gsd.c:42 sets 128), scaled so that expansion happens.
GSD_INITIAL_INDEX_SIZE == 2
\* Initial namelist size (gsd.c:48 sets 65535), scaled.
GSD_INITIAL_NAMELIST_SIZE == 3
\* Copy buffer of gsd_expand_index in index entries (gsd.c:54 sets 16 KiB).
GSD_COPY_BUFFER_SIZE == 1
\* sizeof(struct gsd_namelist_entry) - 1 (63 in the source), scaled.
NameMax == 2
\* Most index entries (committed and staged) a run creates.
MaxChunks == 3
\* Largest frame counter a run reaches.
MaxFrames == 3
\* Most committed names of a handle the name iteration runs on.
MaxNames == 4
\* Most index entries the last page of a file holds past end-of-file.
MaxPageTail == 2
\* Most cells a damaged file lost at its end.
MaxCut == 2

(* --------------------------- program constants ------------------------- *)

GSD_MAGIC_ID == "0x65DF65DF65DF65DF"
UINT16_MAX == 65535

GSD_TYPE_UINT8 == 1
GSD_TYPE_UINT16 == 2
GSD_TYPE_UINT32 == 3
GSD_TYPE_UINT64 == 4
GSD_TYPE_INT8 == 5
GSD_TYPE_INT16 == 6
GSD_TYPE_INT32 == 7
GSD_TYPE_INT64 == 8
GSD_TYPE_FLOAT == 9
GSD_TYPE_DOUBLE == 10

VARIABLES
    file,       \* the file as pread sees it: a sequence of cells
    durable,    \* the file as of the last fsync
    unsynced,   \* the pwrites since the last fsync, in order
    handle,     \* struct gsd_handle
    fdOpen,     \* the handle's file descriptor is open
    heap,       \* the heap buffers and mappings not yet released
    pc,         \* position inside the running operation ("idle" between calls)
    pend,       \* the index entry gsd_write_chunk holds across gsd_expand_index
    ret,        \* return value of the last API call
    committedLog, \* history: writes of frames ended by a successful end_frame
    stagedLog,  \* history: writes of the current frame of the open handle
    nChunks,    \* history: number of payloads written so far
    sess,       \* history: the last append session (see NoSession)
    xp,         \* history: the state before the running index expansion
    iter,       \* the caller's loop over gsd_find_matching_chunk_name
    created     \* history: the arguments of the gsd_create that made the file

vars == <<file, durable, unsynced, handle, fdOpen, heap, pc, pend, ret,
          committedLog, stagedLog, nChunks, sess, xp, iter, created>>

(* ------------------------------ helpers -------------------------------- *)

Max(a, b) == IF a > b THEN a ELSE b
Min(a, b) == IF a < b THEN a ELSE b

Zero == [k |-> "Z"]

ZeroEntry ==
    [frame |-> 0, N |-> 0, location |-> 0, M |-> 0, id |-> 0, type |-> 0,
     flags |-> 0]

ZeroHeader ==
    [magic |-> "0", gsd_version |-> 0, application |-> <<>>, schema |-> <<>>,
     schema_version |-> 0, index_location |-> 0, index_allocated_entries |-> 0,
     namelist_location |-> 0, namelist_allocated_entries |-> 0]

\* A read through a mapping of a page past end-of-file (SIGBUS).
FaultEntry == [ZeroEntry EXCEPT !.location = -1]

EntryCell(e) == IF e = ZeroEntry THEN Zero ELSE [k |-> "I", e |-> e]
NameCell(s) == IF s = <<>> THEN Zero ELSE [k |-> "N", s |-> s]
ByteCell(b) == IF b = 0 THEN Zero ELSE [k |-> "B", b |-> b]
HeaderCell(hd) == IF hd = ZeroHeader THEN Zero ELSE [k |-> "H", h |-> hd]

AsEntry(c) == IF c.k = "I" THEN c.e ELSE ZeroEntry
AsName(c) == IF c.k = "N" THEN c.s ELSE <<>>
AsByte(c) == IF c.k = "B" THEN c.b ELSE 0
AsHeader(c) == IF c.k = "H" THEN c.h ELSE ZeroHeader

\* pwrite(fd, data, Len(data), off): bytes between the old end and off are a hole.
PWrite(f, off, data) ==
    [i \in 1..Max(Len(f), off + Len(data)) |->
        IF i > off /\ i <= off + Len(data) THEN data[i - off]
        ELSE IF i <= Len(f) THEN f[i]
        ELSE Zero]

\* pread(fd, buf, count, off): stops at end-of-file.
PRead(f, off, count) ==
    [i \in 1..Max(0, Min(count, Len(f) - off)) |-> f[off + i]]

Zeros(n) == [i \in 1..n |-> Zero]

\* A gsd_make_version that shifts major by 8 bits.
gsd_make_version_narrow(major, minor) == major * 256 + minor

gsd_make_version(major, minor) == major * 65536 + minor

\* A gsd_sizeof_type that takes an unknown type code for a one-byte type.
gsd_sizeof_type_lenient(type) ==
    CASE type = GSD_TYPE_UINT8 -> 1
      [] type = GSD_TYPE_UINT16 -> 2
      [] type = GSD_TYPE_UINT32 -> 4
      [] type = GSD_TYPE_UINT64 -> 8
      [] type = GSD_TYPE_INT8 -> 1
      [] type = GSD_TYPE_INT16 -> 2
      [] type = GSD_TYPE_INT32 -> 4
      [] type = GSD_TYPE_INT64 -> 8
      [] type = GSD_TYPE_FLOAT -> 4
      [] type = GSD_TYPE_DOUBLE -> 8
      [] OTHER -> 1

gsd_sizeof_type(type) ==
    CASE type = GSD_TYPE_UINT8 -> 1
      [] type = GSD_TYPE_UINT16 -> 2
      [] type = GSD_TYPE_UINT32 -> 4
      [] type = GSD_TYPE_UINT64 -> 8
      [] type = GSD_TYPE_INT8 -> 1
      [] type = GSD_TYPE_INT16 -> 2
      [] type = GSD_TYPE_INT32 -> 4
      [] type = GSD_TYPE_INT64 -> 8
      [] type = GSD_TYPE_FLOAT -> 4
      [] type = GSD_TYPE_DOUBLE -> 8
      [] OTHER -> 0

(* ------------------------------ strings -------------------------------- *)

Take(s, n) == SubSeq(s, 1, Min(n, Len(s)))

RECURSIVE strcmp(_, _)
strcmp(a, b) ==
    IF a = <<>> /\ b = <<>> THEN 0
    ELSE IF a = <<>> THEN -1
    ELSE IF b = <<>> THEN 1
    ELSE IF Head(a) < Head(b) THEN -1
    ELSE IF Head(a) > Head(b) THEN 1
    ELSE strcmp(Tail(a), Tail(b))

strncmp(a, b, n) == strcmp(Take(a, n), Take(b, n))

\* strncpy(dst, src, sizeof(dst) - 1); dst[sizeof(dst) - 1] = 0
strncpy63(s) == Take(s, NameMax)

(* ------------------------- gsd_initialize_file ------------------------- *)

\* A header whose strings are copied whole, past the size of their fields.
InitialHeaderWhole(application, schema, schema_version) ==
    [magic |-> GSD_MAGIC_ID,
     gsd_version |-> gsd_make_version(1, 0),
     application |-> application,
     schema |-> schema,
     schema_version |-> schema_version,
     index_location |-> 1,
     index_allocated_entries |-> GSD_INITIAL_INDEX_SIZE,
     namelist_location |-> 1 + GSD_INITIAL_INDEX_SIZE,
     namelist_allocated_entries |-> GSD_INITIAL_NAMELIST_SIZE]

InitialHeader(application, schema, schema_version) ==
    [magic |-> GSD_MAGIC_ID,
     gsd_version |-> gsd_make_version(1, 0),
     application |-> strncpy63(application),
     schema |-> strncpy63(schema),
     schema_version |-> schema_version,
     index_location |-> 1,
     index_allocated_entries |-> GSD_INITIAL_INDEX_SIZE,
     namelist_location |-> 1 + GSD_INITIAL_INDEX_SIZE,
     namelist_allocated_entries |-> GSD_INITIAL_NAMELIST_SIZE]

\* ftruncate(fd, 0), then header, empty index and empty namelist.
gsd_initialize_file(application, schema, schema_version) ==
    PWrite(PWrite(PWrite(<<>>, 0,
                         <<HeaderCell(InitialHeader(application, schema,
                                                    schema_version))>>),
                  1, Zeros(GSD_INITIAL_INDEX_SIZE)),
           1 + GSD_INITIAL_INDEX_SIZE, Zeros(GSD_INITIAL_NAMELIST_SIZE))

(* ------------------------------ the handle ----------------------------- *)

ZeroHandle ==
    [open_flags |-> "NONE", header |-> ZeroHeader, file_size |-> 0,
     index |-> <<>>, index_ptr |-> FALSE, mapped_data |-> FALSE,
     index_num_entries |-> 0, index_written_entries |-> 0,
     append_index_size |-> 0, cur_frame |-> 0,
     namelist |-> <<>>, namelist_ptr |-> FALSE,
     namelist_num_entries |-> 0, namelist_written_entries |-> 0,
     names |-> <<>>, names_ptr |-> FALSE, names_allocated_size |-> 0]

(* ------------------------------ namelist ------------------------------- *)

\* The do-while of gsd_find_name over names[0 .. namelist_written_entries).
RECURSIVE FindNameLoop(_, _, _, _)
FindNameLoop(h, name, L, R) ==
    LET m == (L + R) \div 2
        cmp == strncmp(name, h.names[m + 1].name, Len(name))
        R2 == IF cmp < 0 THEN m ELSE R
        L2 == IF cmp > 0 THEN m ELSE L
    IN  IF cmp = 0 THEN m
        ELSE IF R2 - L2 > 1 THEN FindNameLoop(h, name, L2, R2)
        ELSE UINT16_MAX

\* A gsd_find_name without the base case that compares names[0].
gsd_find_name_no_base(h, name) ==
    IF h.namelist_written_entries = 0 THEN UINT16_MAX
    ELSE FindNameLoop(h, name, 0, h.namelist_written_entries)

\* The position of name in handle->names[], or UINT16_MAX.
gsd_find_name(h, name) ==
    IF h.namelist_written_entries = 0 THEN UINT16_MAX
    ELSE LET cmp == strncmp(name, h.names[1].name, Len(name))
         IN  IF cmp < 0 THEN UINT16_MAX
             ELSE IF cmp = 0 THEN 0
             ELSE FindNameLoop(h, name, 0, h.namelist_written_entries)

gsd_get_id(h, name) ==
    LET i == gsd_find_name(h, name)
    IN  IF i # UINT16_MAX THEN h.names[i + 1].id ELSE UINT16_MAX

gsd_cmp_name_id_pair(p1, p2) == strcmp(p1.name, p2.name)

\* A gsd_sort_name_id_pairs that leaves names[] in namelist order.
gsd_sort_name_id_pairs_skipped(names) == {names}

\* qsort(names, namelist_num_entries, ...): every order qsort may leave, which
\* is any order sorted by name (qsort is not stable, equal names may swap).
gsd_sort_name_id_pairs(names) ==
    LET n == Len(names)
        perms == {p \in [1..n -> 1..n] : \A i, j \in 1..n : i # j => p[i] # p[j]}
        sorted(q) == \A i \in 1..(n - 1) : gsd_cmp_name_id_pair(q[i], q[i + 1]) <= 0
    IN  {q \in {[i \in 1..n |-> names[p[i]]] : p \in perms} : sorted(q)}

\* A gsd_append_name that copies the whole name into the slot.
gsd_append_name_whole(h, name) ==
    IF h.open_flags = "GSD_OPEN_READONLY"
    THEN [ret |-> "GSD_ERROR_FILE_MUST_BE_WRITABLE", id |-> UINT16_MAX, handle |-> h]
    ELSE IF h.namelist_num_entries = h.header.namelist_allocated_entries
    THEN [ret |-> "GSD_ERROR_NAMELIST_FULL", id |-> UINT16_MAX, handle |-> h]
    ELSE LET n == h.namelist_num_entries
         IN  [ret |-> "GSD_SUCCESS",
              id |-> n,
              handle |->
                [h EXCEPT
                   !.namelist = [@ EXCEPT ![n + 1] = name],
                   !.names_allocated_size =
                       IF n + 1 > @ THEN @ * 2 ELSE @,
                   !.names = Append(SubSeq(@, 1, n), [name |-> name, id |-> n]),
                   !.namelist_num_entries = n + 1]]

\* [ret, id, handle] of gsd_append_name(&id, handle, name).
\* A gsd_append_name that does not look at namelist_allocated_entries.
gsd_append_name_unbounded(h, name) ==
    IF h.open_flags = "GSD_OPEN_READONLY"
    THEN [ret |-> "GSD_ERROR_FILE_MUST_BE_WRITABLE", id |-> UINT16_MAX, handle |-> h]
    ELSE LET n == h.namelist_num_entries
             stored == strncpy63(name)
         IN  [ret |-> "GSD_SUCCESS",
              id |-> n,
              handle |->
                [h EXCEPT
                   !.namelist = IF n < Len(@) THEN [@ EXCEPT ![n + 1] = stored]
                                ELSE Append(@, stored),
                   !.names_allocated_size =
                       IF n + 1 > @ THEN @ * 2 ELSE @,
                   !.names = Append(SubSeq(@, 1, n), [name |-> stored, id |-> n]),
                   !.namelist_num_entries = n + 1]]

gsd_append_name(h, name) ==
    IF h.open_flags = "GSD_OPEN_READONLY"
    THEN [ret |-> "GSD_ERROR_FILE_MUST_BE_WRITABLE", id |-> UINT16_MAX, handle |-> h]
    ELSE IF h.namelist_num_entries = h.header.namelist_allocated_entries
    THEN [ret |-> "GSD_ERROR_NAMELIST_FULL", id |-> UINT16_MAX, handle |-> h]
    ELSE LET n == h.namelist_num_entries
             stored == strncpy63(name)
         IN  [ret |-> "GSD_SUCCESS",
              id |-> n,
              handle |->
                [h EXCEPT
                   !.namelist = [@ EXCEPT ![n + 1] = stored],
                   !.names_allocated_size =
                       IF n + 1 > @ THEN @ * 2 ELSE @,
                   !.names = Append(SubSeq(@, 1, n), [name |-> stored, id |-> n]),
                   !.namelist_num_entries = n + 1]]

(* -------------------------------- index -------------------------------- *)

\* A gsd_is_entry_valid that does not compare the payload's end with
\* file_size.
gsd_is_entry_valid_unbounded(h, entry) ==
    /\ gsd_sizeof_type(entry.type) # 0
    /\ entry.frame < h.header.index_allocated_entries
    /\ entry.id < h.namelist_num_entries
    /\ entry.flags = 0

gsd_is_entry_valid(h, entry) ==
    /\ gsd_sizeof_type(entry.type) # 0
    /\ entry.location + entry.N * entry.M * gsd_sizeof_type(entry.type) <= h.file_size
    /\ entry.frame < h.header.index_allocated_entries
    /\ entry.id < h.namelist_num_entries
    /\ entry.flags = 0

\* handle->index[i]; a mapped index read past end-of-file faults.
IndexAt(idx, i) == IF i < Len(idx) THEN idx[i + 1] ELSE FaultEntry

\* A bisection that reports L, the last entry in use, instead of R.
RECURSIVE BootScanLow(_, _, _, _)
BootScanLow(h, idx, L, R) ==
    LET m == (L + R) \div 2
        e == IndexAt(idx, m)
    IN  IF e = FaultEntry \/ IndexAt(idx, L) = FaultEntry THEN [st |-> "fault", R |-> 0]
        ELSE IF e.location # 0
                /\ (~gsd_is_entry_valid(h, e) \/ e.frame < IndexAt(idx, L).frame)
        THEN [st |-> "corrupt", R |-> 0]
        ELSE LET L2 == IF e.location # 0 THEN m ELSE L
                 R2 == IF e.location # 0 THEN R ELSE m
             IN  IF R2 - L2 > 1 THEN BootScanLow(h, idx, L2, R2)
                 ELSE [st |-> "ok", R |-> L2]

\* The bisection of gsd_read_header for the first entry with location == 0:
\* st is "corrupt", "fault", or "ok" with R the number of entries found.
RECURSIVE BootScan(_, _, _, _)
BootScan(h, idx, L, R) ==
    LET m == (L + R) \div 2
        e == IndexAt(idx, m)
    IN  IF e = FaultEntry \/ IndexAt(idx, L) = FaultEntry THEN [st |-> "fault", R |-> 0]
        ELSE IF e.location # 0
                /\ (~gsd_is_entry_valid(h, e) \/ e.frame < IndexAt(idx, L).frame)
        THEN [st |-> "corrupt", R |-> 0]
        ELSE LET L2 == IF e.location # 0 THEN m ELSE L
                 R2 == IF e.location # 0 THEN R ELSE m
             IN  IF R2 - L2 > 1 THEN BootScan(h, idx, L2, R2)
                 ELSE [st |-> "ok", R |-> R2]

\* The index seen through the mapping (read-only, append): past end-of-file
\* the rest of the last page, tail entries long, reads as zeros and every
\* later page faults.
LoadIndexMapped(f, hdr, tail) ==
    [i \in 1..hdr.index_allocated_entries |->
        IF hdr.index_location + i <= Len(f)
        THEN AsEntry(f[hdr.index_location + i])
        ELSE IF hdr.index_location + i <= Len(f) + tail
        THEN ZeroEntry
        ELSE FaultEntry]

\* The index as gsd_read_header loads it when the file ends on a page
\* boundary: read into memory (read/write) or seen through the mapping.
LoadIndex(f, hdr) == LoadIndexMapped(f, hdr, 0)

\* The namelist block as gsd_read_header reads it.
LoadNamelist(f, hdr) ==
    [i \in 1..hdr.namelist_allocated_entries |-> AsName(f[hdr.namelist_location + i])]

\* Number of namelist entries: the first empty name, or all of them.
CountNames(namelist) ==
    IF \E i \in 1..Len(namelist) : namelist[i] = <<>>
    THEN (CHOOSE i \in 1..Len(namelist) :
            namelist[i] = <<>> /\ \A j \in 1..(i - 1) : namelist[j] # <<>>) - 1
    ELSE Len(namelist)

\* names[] as gsd_read_header fills it, before the sort.
NamePairs(f, hdr) ==
    IF hdr.namelist_location + hdr.namelist_allocated_entries > Len(f) THEN <<>>
    ELSE LET nl == LoadNamelist(f, hdr)
         IN  [i \in 1..CountNames(nl) |-> [name |-> nl[i], id |-> i - 1]]

(* --------------------------- gsd_read_header --------------------------- *)

\* The part of gsd_read_header after names[] is sorted: the index bootstrap,
\* the frame counter and the append cache.  idx is the loaded index.
ReadIndexPart(h, idx) ==
    LET first == IndexAt(idx, 0)
        scan == IF first.location = 0 THEN [st |-> "ok", R |-> 0]
                ELSE BootScan(h, idx, 0, h.header.index_allocated_entries)
    IN  IF first = FaultEntry
        THEN [ret |-> "SIGBUS", handle |-> h]
        ELSE IF first.location # 0 /\ ~gsd_is_entry_valid(h, first)
        THEN [ret |-> "GSD_ERROR_FILE_CORRUPT", handle |-> h]
        ELSE IF scan.st = "fault"
        THEN [ret |-> "SIGBUS", handle |-> h]
        ELSE IF scan.st = "corrupt"
        THEN [ret |-> "GSD_ERROR_FILE_CORRUPT", handle |-> h]
        ELSE LET h1 == [h EXCEPT
                          !.index_num_entries = scan.R,
                          !.cur_frame = IF scan.R = 0 THEN 0
                                        ELSE IndexAt(idx, scan.R - 1).frame + 1,
                          !.index_written_entries = scan.R]
             IN  IF h.open_flags = "GSD_OPEN_APPEND"
                 THEN [ret |-> "GSD_SUCCESS",
                       handle |-> [h1 EXCEPT !.append_index_size = 1,
                                             !.index = <<>>,
                                             !.index_ptr = TRUE,
                                             !.mapped_data = FALSE]]
                 ELSE [ret |-> "GSD_SUCCESS", handle |-> h1]

\* The part of gsd_read_header from the namelist on.  sorted is the order
\* gsd_sort_name_id_pairs leaves names[] in.
ReadNamelistPart(f, h, sorted) ==
    LET hdr == h.header
    IN  IF hdr.namelist_location + hdr.namelist_allocated_entries > h.file_size
        THEN [ret |-> "GSD_ERROR_FILE_CORRUPT", handle |-> h]
        ELSE LET nl == LoadNamelist(f, hdr)
                 n == CountNames(nl)
                 h1 == [h EXCEPT
                          !.namelist = nl,
                          !.namelist_ptr = TRUE,
                          !.namelist_num_entries = n,
                          !.namelist_written_entries = n,
                          !.names_allocated_size =
                              IF n = 0 THEN GSD_INITIAL_NAMELIST_SIZE ELSE n,
                          !.names = sorted,
                          !.names_ptr = TRUE]
             IN  ReadIndexPart(h1, h1.index)

\* gsd_read_header on file f for a zeroed handle with open_flags = flags:
\* [ret, handle].  tail is what the last page of the file holds past
\* end-of-file.
gsd_read_header_mapped(f, flags, sorted, tail) ==
    LET h0 == [ZeroHandle EXCEPT !.open_flags = flags]
        bytes == PRead(f, 0, 1)
    IN  IF Len(bytes) # 1
        THEN [ret |-> "GSD_ERROR_NOT_A_GSD_FILE", handle |-> h0]
        ELSE
        LET hdr == AsHeader(bytes[1])
            h1 == [h0 EXCEPT !.header = hdr]
        IN  IF hdr.magic # GSD_MAGIC_ID
            THEN [ret |-> "GSD_ERROR_NOT_A_GSD_FILE", handle |-> h1]
            ELSE IF hdr.gsd_version < gsd_make_version(1, 0)
                    /\ hdr.gsd_version # gsd_make_version(0, 3)
            THEN [ret |-> "GSD_ERROR_INVALID_GSD_FILE_VERSION", handle |-> h1]
            ELSE IF hdr.gsd_version >= gsd_make_version(2, 0)
            THEN [ret |-> "GSD_ERROR_INVALID_GSD_FILE_VERSION", handle |-> h1]
            ELSE
            LET h2 == [h1 EXCEPT !.file_size = Len(f)]
            IN  IF flags = "GSD_OPEN_READWRITE"
                THEN IF hdr.index_location + hdr.index_allocated_entries > h2.file_size
                     THEN [ret |-> "GSD_ERROR_FILE_CORRUPT", handle |-> h2]
                     ELSE ReadNamelistPart(f,
                              [h2 EXCEPT !.index = LoadIndex(f, hdr),
                                         !.index_ptr = TRUE], sorted)
                ELSE ReadNamelistPart(f,
                         [h2 EXCEPT !.index = LoadIndexMapped(f, hdr, tail),
                                    !.index_ptr = TRUE,
                                    !.mapped_data = TRUE], sorted)

\* gsd_read_header on a file that ends on a page boundary.
gsd_read_header(f, flags, sorted) == gsd_read_header_mapped(f, flags, sorted, 0)

(* ------------------------------ read path ------------------------------ *)

NULL == -1
NULLNAME == <<0>>
\* data == NULL in gsd_write_chunk
NULLDATA == <<NULL>>

gsd_get_nframes(h) == h.cur_frame

\* A bisection that narrows with <= and so stops left of the frame's entries.
RECURSIVE FindChunkLoopLeft(_, _, _, _)
FindChunkLoopLeft(h, frame, L, R) ==
    LET m == (L + R) \div 2
        R2 == IF frame <= IndexAt(h.index, m).frame THEN m ELSE R
        L2 == IF frame <= IndexAt(h.index, m).frame THEN L ELSE m
    IN  IF R2 - L2 > 1 THEN FindChunkLoopLeft(h, frame, L2, R2) ELSE L2

\* The bisection of gsd_find_chunk: L, the rightmost entry with frame <= frame.
RECURSIVE FindChunkLoop(_, _, _, _)
FindChunkLoop(h, frame, L, R) ==
    LET m == (L + R) \div 2
        R2 == IF frame < IndexAt(h.index, m).frame THEN m ELSE R
        L2 == IF frame < IndexAt(h.index, m).frame THEN L ELSE m
    IN  IF R2 - L2 > 1 THEN FindChunkLoop(h, frame, L2, R2) ELSE L2

\* The leftward walk of gsd_find_chunk over the entries of the frame.
RECURSIVE FindChunkWalk(_, _, _, _)
FindChunkWalk(h, frame, match_id, cur_index) ==
    IF cur_index >= 0 /\ IndexAt(h.index, cur_index).frame = frame
    THEN IF match_id = IndexAt(h.index, cur_index).id
         THEN cur_index
         ELSE FindChunkWalk(h, frame, match_id, cur_index - 1)
    ELSE NULL

\* The position in handle->index of the entry gsd_find_chunk returns, or NULL.
gsd_find_chunk(h, frame, name) ==
    IF frame >= gsd_get_nframes(h) THEN NULL
    ELSE IF h.open_flags = "GSD_OPEN_APPEND" THEN NULL
    ELSE LET match_id == gsd_get_id(h, name)
         IN  IF match_id = UINT16_MAX THEN NULL
             ELSE FindChunkWalk(h, frame, match_id,
                                FindChunkLoop(h, frame, 0, h.index_num_entries))

\* A gsd_read_chunk that does not look at open_flags.
gsd_read_chunk_unchecked(h, f, chunk) ==
    LET size == chunk.N * chunk.M * gsd_sizeof_type(chunk.type)
        bytes == PRead(f, chunk.location, size)
    IN  IF size = 0 \/ chunk.location = 0
           \/ chunk.location + size > h.file_size
        THEN [ret |-> "GSD_ERROR_FILE_CORRUPT", data |-> <<>>]
        ELSE IF Len(bytes) # size
        THEN [ret |-> "GSD_ERROR_IO", data |-> <<>>]
        ELSE [ret |-> "GSD_SUCCESS",
              data |-> [i \in 1..size |-> AsByte(bytes[i])]]

\* [ret, data] of gsd_read_chunk(handle, data, chunk) on file f.
gsd_read_chunk(h, f, chunk) ==
    LET size == chunk.N * chunk.M * gsd_sizeof_type(chunk.type)
        bytes == PRead(f, chunk.location, size)
    IN  IF h.open_flags = "GSD_OPEN_APPEND"
        THEN [ret |-> "GSD_ERROR_FILE_MUST_BE_READABLE", data |-> <<>>]
        ELSE IF size = 0 \/ chunk.location = 0
                \/ chunk.location + size > h.file_size
        THEN [ret |-> "GSD_ERROR_FILE_CORRUPT", data |-> <<>>]
        ELSE IF Len(bytes) # size
        THEN [ret |-> "GSD_ERROR_IO", data |-> <<>>]
        ELSE [ret |-> "GSD_SUCCESS",
              data |-> [i \in 1..size |-> AsByte(bytes[i])]]

\* The scan of gsd_find_matching_chunk_name from position i.
RECURSIVE MatchScan(_, _, _)
MatchScan(h, match, i) ==
    IF i < h.namelist_written_entries
    THEN IF strncmp(match, h.names[i + 1].name, Len(match)) = 0
         THEN i
         ELSE MatchScan(h, match, i + 1)
    ELSE NULL

\* The position in names[] of the name gsd_find_matching_chunk_name returns,
\* or NULL.  prev = NULLNAME stands for prev == NULL.
MatchPos(h, match, prev) ==
    IF h.namelist_written_entries = 0 THEN NULL
    ELSE IF prev = NULLNAME THEN MatchScan(h, match, 0)
    ELSE LET found == gsd_find_name(h, prev)
         IN  IF found = UINT16_MAX THEN NULL
             ELSE MatchScan(h, match, found + 1)

gsd_find_matching_chunk_name(h, match, prev) ==
    LET i == MatchPos(h, match, prev)
    IN  IF i = NULL THEN NULLNAME ELSE h.names[i + 1].name

(* ------------------------------- inputs -------------------------------- *)

\* The chunk names callers use: "a" and "ab".
ChunkNames == {<<1>>, <<1, 2>>}

\* The (type, N, M, flags, data) callers pass to gsd_write_chunk as the k-th
\* payload of a run: the shapes alternate and every payload has bytes of its
\* own, so that two chunks never carry the same data.
ChunkShapes(k) ==
    {IF k % 2 = 0
     THEN [type |-> GSD_TYPE_UINT8, N |-> 1, M |-> 1, flags |-> 0,
           data |-> <<k + 1>>]
     ELSE [type |-> GSD_TYPE_UINT16, N |-> 2, M |-> 1, flags |-> 0,
           data |-> <<k + 1, 0, k + 1, 0>>]}

OpenFlags == {"GSD_OPEN_READWRITE", "GSD_OPEN_READONLY", "GSD_OPEN_APPEND"}

(* ------------------------------ the disk ------------------------------- *)

RECURSIVE ApplyWrites(_, _)
ApplyWrites(f, ws) ==
    IF ws = <<>> THEN f
    ELSE ApplyWrites(PWrite(f, Head(ws).off, Head(ws).data), Tail(ws))

\* The buffers and mappings a handle's pointers refer to.
Owned(h) ==
    (IF h.mapped_data THEN {"map"} ELSE IF h.index_ptr THEN {"index"} ELSE {})
    \cup (IF h.namelist_ptr THEN {"namelist"} ELSE {})
    \cup (IF h.names_ptr THEN {"names"} ELSE {})

(* ------------------------------- actions ------------------------------- *)

\* sess: flags, k (gsd_get_nframes), file0 (the file) and logStart (the length
\* of committedLog) at the open of the last writable session when that was an
\* append session, ended = the session's successful end_frame calls, and
\* nframes = gsd_get_nframes at the last gsd_close of any handle.
NoSession ==
    [flags |-> "NONE", k |-> 0, file0 |-> <<>>, logStart |-> 0, ended |-> 0,
     nframes |-> 0]

\* xp: no expansion is running.
NoXp == [on |-> FALSE, file |-> <<>>, durable |-> <<>>, handle |-> ZeroHandle]

\* iter: the loop's match and prev arguments, the names returned so far, and
\* done once NULL was returned.  No loop is running.
NoIter == [match |-> <<>>, prev |-> NULLNAME, out |-> <<>>, done |-> FALSE]

\* created: gsd_create(fname, "a", "b", 0).
DefaultCreate == [application |-> <<1>>, schema |-> <<2>>, schema_version |-> 0]

Init ==
    /\ created = DefaultCreate
    /\ file = gsd_initialize_file(created.application, created.schema,
                                  created.schema_version)
    /\ durable = file
    /\ unsynced = <<>>
    /\ handle = ZeroHandle
    /\ fdOpen = FALSE
    /\ heap = {}
    /\ pc = "idle"
    /\ pend = ZeroEntry
    /\ ret = "GSD_SUCCESS"
    /\ committedLog = <<>>
    /\ stagedLog = <<>>
    /\ nChunks = 0
    /\ sess = NoSession
    /\ xp = NoXp
    /\ iter = NoIter

\* The header of file f as pread gives it; a file too short for a header
\* leaves the zeroed one.
HeaderOf(f) == IF Len(f) >= 1 THEN AsHeader(f[1]) ELSE ZeroHeader

\* What the last page of file f can hold past end-of-file, in index entries;
\* nothing of it is read when the index block is inside the file.
PageTails(f) ==
    IF HeaderOf(f).index_location + HeaderOf(f).index_allocated_entries
          <= Len(f)
    THEN {0}
    ELSE 0..MaxPageTail

\* gsd_open(handle, fname, flags)
Open(flags) ==
    /\ pc = "idle"
    /\ ~fdOpen
    /\ \E sorted \in gsd_sort_name_id_pairs(NamePairs(file, HeaderOf(file))),
          tail \in PageTails(file) :
        LET r == gsd_read_header_mapped(file, flags, sorted, tail)
        IN  /\ handle' = r.handle
            /\ ret' = r.ret
            /\ fdOpen' = (r.ret = "GSD_SUCCESS")
            /\ heap' = heap \cup Owned(r.handle)
            /\ sess' = IF r.ret = "GSD_SUCCESS" /\ flags = "GSD_OPEN_APPEND"
                       THEN [flags |-> flags, k |-> r.handle.cur_frame,
                             file0 |-> file, logStart |-> Len(committedLog),
                             ended |-> 0, nframes |-> sess.nframes]
                       ELSE IF r.ret = "GSD_SUCCESS" /\ flags = "GSD_OPEN_READWRITE"
                       THEN [NoSession EXCEPT !.nframes = sess.nframes]
                       ELSE sess
    /\ stagedLog' = <<>>
    /\ UNCHANGED <<file, durable, unsynced, pc, pend, committedLog, nChunks, xp,
                   iter, created>>

\* The handle and the released buffers after gsd_close's frees.
CloseFrees(h) ==
    LET zeroed == h.mapped_data \/ h.index_ptr
        h1 == IF zeroed THEN ZeroHandle ELSE h
        freed1 == IF h.mapped_data THEN {"map"}
                  ELSE IF h.index_ptr THEN {"index"} ELSE {}
        freed2 == IF h1.namelist_ptr THEN {"namelist"} ELSE {}
        freed3 == IF h1.names_ptr THEN {"names"} ELSE {}
    IN  [handle |-> [h1 EXCEPT !.namelist_ptr = FALSE, !.names_ptr = FALSE,
                               !.index_ptr = FALSE, !.mapped_data = FALSE],
         freed |-> freed1 \cup freed2 \cup freed3]

\* gsd_close(handle)
Close ==
    /\ pc = "idle"
    /\ fdOpen
    /\ handle' = CloseFrees(handle).handle
    /\ heap' = heap \ CloseFrees(handle).freed
    /\ fdOpen' = FALSE
    /\ ret' = "GSD_SUCCESS"
    /\ sess' = [sess EXCEPT !.nframes = handle.cur_frame]
    /\ stagedLog' = <<>>
    /\ UNCHANGED <<file, durable, unsynced, pc, pend, committedLog, nChunks,
                   xp, iter, created>>

(* --------------------------- gsd_expand_index -------------------------- *)

\* An append-mode expansion that copies nothing of the old index.
CopyWritesSkipped(f, old_index_location, new_index_location, total, old_index_bytes) ==
    <<>>

\* Append mode: the pwrites that copy the old index to new_index_location
\* through the copy buffer, reading file f.
RECURSIVE CopyWrites(_, _, _, _, _)
CopyWrites(f, old_index_location, new_index_location, total, old_index_bytes) ==
    IF total < old_index_bytes
    THEN LET bytes_to_copy == Min(GSD_COPY_BUFFER_SIZE, old_index_bytes - total)
         IN  <<[off |-> new_index_location + total,
                data |-> PRead(f, old_index_location + total, bytes_to_copy)]>>
             \o CopyWrites(f, old_index_location, new_index_location,
                           total + bytes_to_copy, old_index_bytes)
    ELSE <<>>

\* Append mode: the pwrites that fill the new index space with zeros.
RECURSIVE ZeroWrites(_, _, _)
ZeroWrites(new_index_location, total, new_index_bytes) ==
    IF total < new_index_bytes
    THEN LET bytes_to_copy == Min(GSD_COPY_BUFFER_SIZE, new_index_bytes - total)
         IN  <<[off |-> new_index_location + total, data |-> Zeros(bytes_to_copy)]>>
             \o ZeroWrites(new_index_location, total + bytes_to_copy, new_index_bytes)
    ELSE <<>>

\* A realloc that loses the old entries.
ExpandedIndexLost(h, new_size) == [i \in 1..new_size |-> ZeroEntry]

\* The index block gsd_expand_index writes in read/write mode: the whole
\* in-memory index after realloc and zeroing of the new half.
ExpandedIndex(h, new_size) ==
    [i \in 1..new_size |-> IF i <= Len(h.index) THEN h.index[i] ELSE ZeroEntry]

\* gsd_expand_index up to its first fsync, on file f (whose end is where
\* lseek(fd, 0, SEEK_END) lands): [handle, writes].
ExpandIndexWritesStaleSize(h, f) ==
    LET old_size == h.header.index_allocated_entries
        new_size == old_size * 2
        end == Len(f)
    IN  IF h.open_flags = "GSD_OPEN_READWRITE"
        THEN [handle |->
                [h EXCEPT !.header.index_allocated_entries = new_size,
                          !.index = ExpandedIndex(h, new_size),
                          !.header.index_location = end],
              writes |->
                <<[off |-> end,
                   data |-> [i \in 1..new_size |->
                               EntryCell(ExpandedIndex(h, new_size)[i])]]>>]
        ELSE [handle |->
                [h EXCEPT !.header.index_allocated_entries = new_size,
                          !.header.index_location = end],
              writes |->
                CopyWrites(f, h.header.index_location, end, 0, old_size)
                \o ZeroWrites(end, old_size, new_size)]

ExpandIndexWrites(h, f) ==
    LET old_size == h.header.index_allocated_entries
        new_size == old_size * 2
        end == Len(f)
    IN  IF h.open_flags = "GSD_OPEN_READWRITE"
        THEN [handle |->
                [h EXCEPT !.header.index_allocated_entries = new_size,
                          !.index = ExpandedIndex(h, new_size),
                          !.header.index_location = end,
                          !.file_size = end + new_size],
              writes |->
                <<[off |-> end,
                   data |-> [i \in 1..new_size |->
                               EntryCell(ExpandedIndex(h, new_size)[i])]]>>]
        ELSE [handle |->
                [h EXCEPT !.header.index_allocated_entries = new_size,
                          !.header.index_location = end,
                          !.file_size = end + new_size],
              writes |->
                CopyWrites(f, h.header.index_location, end, 0, old_size)
                \o ZeroWrites(end, old_size, new_size)]

(* ---------------------------- gsd_write_chunk -------------------------- *)

\* A gsd_write_chunk that takes the entry's location from file_size after the
\* payload write advanced it.
StoreEntryAhead(h, index_entry) ==
    LET ahead == [index_entry EXCEPT
                    !.location = @ + index_entry.N * index_entry.M
                                       * gsd_sizeof_type(index_entry.type)]
    IN  IF h.open_flags = "GSD_OPEN_APPEND"
        THEN LET slot == h.index_num_entries - h.index_written_entries
             IN  [h EXCEPT
                    !.append_index_size = IF slot >= @ THEN @ * 2 ELSE @,
                    !.index = IF slot < Len(@)
                              THEN [@ EXCEPT ![slot + 1] = ahead]
                              ELSE Append(@, ahead),
                    !.index_num_entries = @ + 1]
        ELSE [h EXCEPT !.index = [@ EXCEPT ![h.index_num_entries + 1] = ahead],
                       !.index_num_entries = @ + 1]

\* A gsd_write_chunk that stores the entry without growing the tail cache.
StoreEntryNoGrow(h, index_entry) ==
    IF h.open_flags = "GSD_OPEN_APPEND"
    THEN LET slot == h.index_num_entries - h.index_written_entries
         IN  [h EXCEPT
                !.index = IF slot < Len(@)
                          THEN [@ EXCEPT ![slot + 1] = index_entry]
                          ELSE Append(@, index_entry),
                !.index_num_entries = @ + 1]
    ELSE [h EXCEPT !.index = [@ EXCEPT ![h.index_num_entries + 1] = index_entry],
                   !.index_num_entries = @ + 1]

\* The end of gsd_write_chunk: the entry goes to its slot of handle->index.
StoreEntry(h, index_entry) ==
    IF h.open_flags = "GSD_OPEN_APPEND"
    THEN LET slot == h.index_num_entries - h.index_written_entries
         IN  [h EXCEPT
                !.append_index_size = IF slot >= @ THEN @ * 2 ELSE @,
                !.index = IF slot < Len(@)
                          THEN [@ EXCEPT ![slot + 1] = index_entry]
                          ELSE Append(@, index_entry),
                !.index_num_entries = @ + 1]
    ELSE [h EXCEPT !.index = [@ EXCEPT ![h.index_num_entries + 1] = index_entry],
                   !.index_num_entries = @ + 1]

LogRecord(frame, name, shape) ==
    [frame |-> frame, name |-> name, type |-> shape.type, N |-> shape.N,
     M |-> shape.M, data |-> shape.data]

\* gsd_write_chunk(handle, name, type, N, M, flags, data) up to its return or
\* to the first fsync of gsd_expand_index.
WriteChunk(name, shape) ==
    /\ pc = "idle"
    /\ fdOpen
    /\ IF shape.data = NULLDATA
       THEN /\ ret' = "GSD_ERROR_INVALID_ARGUMENT"
            /\ UNCHANGED <<file, unsynced, handle, pc, pend, stagedLog, nChunks, xp>>
       ELSE IF shape.N = 0 \/ shape.M = 0 \/ gsd_sizeof_type(shape.type) = 0
       THEN /\ ret' = "GSD_ERROR_INVALID_ARGUMENT"
            /\ UNCHANGED <<file, unsynced, handle, pc, pend, stagedLog, nChunks, xp>>
       ELSE IF handle.open_flags = "GSD_OPEN_READONLY"
       THEN /\ ret' = "GSD_ERROR_FILE_MUST_BE_WRITABLE"
            /\ UNCHANGED <<file, unsynced, handle, pc, pend, stagedLog, nChunks, xp>>
       ELSE IF shape.flags # 0
       THEN /\ ret' = "GSD_ERROR_INVALID_ARGUMENT"
            /\ UNCHANGED <<file, unsynced, handle, pc, pend, stagedLog, nChunks, xp>>
       ELSE
       LET found == gsd_get_id(handle, name)
           app == gsd_append_name(handle, name)
           id == IF found # UINT16_MAX THEN found ELSE app.id
           h1 == IF found # UINT16_MAX THEN handle ELSE app.handle
       IN  IF found = UINT16_MAX /\ app.ret # "GSD_SUCCESS"
           THEN /\ ret' = app.ret
                /\ UNCHANGED <<file, unsynced, handle, pc, pend, stagedLog,
                               nChunks, xp>>
           ELSE
           LET size == shape.N * shape.M * gsd_sizeof_type(shape.type)
               index_entry ==
                   [frame |-> h1.cur_frame, N |-> shape.N,
                    location |-> h1.file_size, M |-> shape.M, id |-> id,
                    type |-> shape.type, flags |-> 0]
               payload == [off |-> index_entry.location,
                           data |-> [i \in 1..size |-> ByteCell(shape.data[i])]]
               f1 == PWrite(file, payload.off, payload.data)
               h2 == [h1 EXCEPT !.file_size = @ + size]
           IN  /\ nChunks' = nChunks + 1
               /\ stagedLog' = Append(stagedLog, LogRecord(h1.cur_frame, name, shape))
               /\ IF h2.index_num_entries >= h2.header.index_allocated_entries
                  THEN LET x == ExpandIndexWrites(h2, f1)
                       IN  /\ file' = ApplyWrites(f1, x.writes)
                           /\ unsynced' = unsynced \o <<payload>> \o x.writes
                           /\ handle' = x.handle
                           /\ pend' = index_entry
                           /\ pc' = "expand_fsync1"
                           /\ xp' = [on |-> TRUE, file |-> file,
                                     durable |-> durable, handle |-> handle]
                           /\ UNCHANGED ret
                  ELSE /\ file' = f1
                       /\ unsynced' = Append(unsynced, payload)
                       /\ handle' = StoreEntry(h2, index_entry)
                       /\ ret' = "GSD_SUCCESS"
                       /\ UNCHANGED <<pc, pend, xp>>
    /\ UNCHANGED <<durable, fdOpen, heap, committedLog, sess, iter, created>>

\* gsd_expand_index with the header rewritten before the expanded index is
\* fsync-ed.
ExpandSync1NoFsync ==
    /\ pc = "expand_fsync1"
    /\ file' = PWrite(file, 0, <<HeaderCell(handle.header)>>)
    /\ unsynced' = Append(unsynced, [off |-> 0, data |-> <<HeaderCell(handle.header)>>])
    /\ pc' = "expand_fsync2"
    /\ UNCHANGED <<durable, handle, fdOpen, heap, pend, ret, committedLog,
                   stagedLog, nChunks, sess, xp, iter, created>>

\* gsd_expand_index: fsync of the expanded index, then the header rewrite.
ExpandSync1 ==
    /\ pc = "expand_fsync1"
    /\ durable' = file
    /\ file' = PWrite(file, 0, <<HeaderCell(handle.header)>>)
    /\ unsynced' = <<[off |-> 0, data |-> <<HeaderCell(handle.header)>>]>>
    /\ pc' = "expand_fsync2"
    /\ UNCHANGED <<handle, fdOpen, heap, pend, ret, committedLog, stagedLog,
                   nChunks, sess, xp, iter, created>>

\* gsd_expand_index: fsync of the header; gsd_write_chunk then stores the entry.
ExpandSync2 ==
    /\ pc = "expand_fsync2"
    /\ durable' = file
    /\ unsynced' = <<>>
    /\ handle' = StoreEntry(handle, pend)
    /\ pend' = ZeroEntry
    /\ ret' = "GSD_SUCCESS"
    /\ pc' = "idle"
    /\ xp' = NoXp
    /\ UNCHANGED <<file, fdOpen, heap, committedLog, stagedLog, nChunks, sess, iter, created>>

(* ----------------------------- gsd_end_frame --------------------------- *)

\* An end_frame that writes the unwritten entries one slot too far.
IndexTailWriteSkipsSlot(h) ==
    LET entries_to_write == h.index_num_entries - h.index_written_entries
        first == IF h.open_flags # "GSD_OPEN_APPEND"
                 THEN h.index_written_entries ELSE 0
    IN  IF entries_to_write > 0
        THEN <<[off |-> h.header.index_location + h.index_written_entries + 1,
                data |-> [i \in 1..entries_to_write |->
                            EntryCell(IndexAt(h.index, first + i - 1))]]>>
        ELSE <<>>

\* The pwrite of the unwritten index entries, or <<>> when there are none.
IndexTailWrite(h) ==
    LET entries_to_write == h.index_num_entries - h.index_written_entries
        first == IF h.open_flags # "GSD_OPEN_APPEND"
                 THEN h.index_written_entries ELSE 0
    IN  IF entries_to_write > 0
        THEN <<[off |-> h.header.index_location + h.index_written_entries,
                data |-> [i \in 1..entries_to_write |->
                            EntryCell(IndexAt(h.index, first + i - 1))]]>>
        ELSE <<>>

\* The pwrite of the unwritten namelist entries, or <<>> when there are none.
NamelistTailWrite(h) ==
    LET new_namelist_entries == h.namelist_num_entries - h.namelist_written_entries
    IN  IF new_namelist_entries > 0
        THEN <<[off |-> h.header.namelist_location + h.namelist_written_entries,
                data |-> [i \in 1..new_namelist_entries |->
                            NameCell(h.namelist[h.namelist_written_entries + i])]]>>
        ELSE <<>>

\* gsd_end_frame(handle) up to its return or to its fsync.
EndFrame ==
    /\ pc = "idle"
    /\ fdOpen
    /\ handle.cur_frame < MaxFrames
    /\ IF handle.open_flags = "GSD_OPEN_READONLY"
       THEN /\ ret' = "GSD_ERROR_FILE_MUST_BE_WRITABLE"
            /\ UNCHANGED <<file, unsynced, handle, pc, committedLog, stagedLog,
                           sess>>
       ELSE
       LET iw == IndexTailWrite(handle)
           nw == NamelistTailWrite(handle)
           h1 == [handle EXCEPT !.cur_frame = @ + 1,
                                !.index_written_entries = handle.index_num_entries]
       IN  /\ file' = ApplyWrites(file, iw \o nw)
           /\ unsynced' = unsynced \o iw \o nw
           /\ committedLog' = committedLog \o stagedLog
           /\ stagedLog' = <<>>
           /\ sess' = IF sess.flags = "NONE" THEN sess
                       ELSE [sess EXCEPT !.ended = @ + 1]
           /\ IF nw # <<>>
              THEN /\ \E sorted \in gsd_sort_name_id_pairs(h1.names) :
                        handle' = [h1 EXCEPT
                                     !.namelist_written_entries = h1.namelist_num_entries,
                                     !.names = sorted]
                   /\ pc' = "endframe_fsync"
                   /\ UNCHANGED ret
              ELSE /\ handle' = h1
                   /\ ret' = "GSD_SUCCESS"
                   /\ UNCHANGED pc
    /\ UNCHANGED <<durable, fdOpen, heap, pend, nChunks, xp, iter, created>>

\* gsd_end_frame: the fsync after the namelist write.
EndFrameSync ==
    /\ pc = "endframe_fsync"
    /\ durable' = file
    /\ unsynced' = <<>>
    /\ ret' = "GSD_SUCCESS"
    /\ pc' = "idle"
    /\ UNCHANGED <<file, handle, fdOpen, heap, pend, committedLog, stagedLog,
                   nChunks, sess, xp, iter, created>>

(* ----------------------------- gsd_truncate ---------------------------- *)

\* A gsd_truncate that rewrites the file and keeps what the handle had loaded.
TruncateNoReload ==
    /\ pc = "idle"
    /\ fdOpen
    /\ handle.open_flags # "GSD_OPEN_READONLY"
    /\ file' = gsd_initialize_file(handle.header.application,
                                   handle.header.schema,
                                   handle.header.schema_version)
    /\ durable' = file'
    /\ unsynced' = <<>>
    /\ ret' = "GSD_SUCCESS"
    /\ committedLog' = <<>>
    /\ stagedLog' = <<>>
    /\ sess' = [NoSession EXCEPT !.nframes = sess.nframes]
    /\ UNCHANGED <<handle, heap, fdOpen, pc, pend, nChunks, xp, iter, created>>

\* A gsd_truncate that does not look at open_flags.
TruncateUnchecked ==
    /\ pc = "idle"
    /\ fdOpen
    /\ LET f1 == gsd_initialize_file(handle.header.application,
                                     handle.header.schema,
                                     handle.header.schema_version)
       IN  /\ file' = f1
           /\ durable' = f1
           /\ unsynced' = <<>>
           /\ \E sorted \in gsd_sort_name_id_pairs(NamePairs(f1, AsHeader(f1[1]))) :
                 LET r == gsd_read_header(f1, handle.open_flags, sorted)
                 IN  /\ handle' = r.handle
                     /\ ret' = r.ret
                     /\ heap' = (heap \ Owned(handle)) \cup Owned(r.handle)
           /\ committedLog' = <<>>
           /\ stagedLog' = <<>>
           /\ sess' = [NoSession EXCEPT !.nframes = sess.nframes]
    /\ UNCHANGED <<fdOpen, pc, pend, nChunks, xp, iter, created>>

\* gsd_truncate(handle): the buffers are freed, gsd_initialize_file rewrites
\* the file (ftruncate to 0, header, empty index, empty namelist, fsync) and
\* gsd_read_header loads it into the handle.
Truncate ==
    /\ pc = "idle"
    /\ fdOpen
    /\ IF handle.open_flags = "GSD_OPEN_READONLY"
       THEN /\ ret' = "GSD_ERROR_FILE_MUST_BE_WRITABLE"
            /\ UNCHANGED <<file, durable, unsynced, handle, heap, committedLog,
                           stagedLog, sess>>
       ELSE LET f1 == gsd_initialize_file(handle.header.application,
                                          handle.header.schema,
                                          handle.header.schema_version)
            IN  /\ file' = f1
                /\ durable' = f1
                /\ unsynced' = <<>>
                /\ \E sorted \in gsd_sort_name_id_pairs(NamePairs(f1, AsHeader(f1[1]))) :
                      LET r == gsd_read_header(f1, handle.open_flags, sorted)
                      IN  /\ handle' = r.handle
                          /\ ret' = r.ret
                          /\ heap' = (heap \ Owned(handle)) \cup Owned(r.handle)
                /\ committedLog' = <<>>
                /\ stagedLog' = <<>>
                /\ sess' = [NoSession EXCEPT !.nframes = sess.nframes]
    /\ UNCHANGED <<fdOpen, pc, pend, nChunks, xp, iter, created>>

(* --------------------------- the specification ------------------------- *)

Next ==
    \/ \E flags \in OpenFlags : Open(flags)
    \/ Close
    \/ \E name \in ChunkNames, shape \in ChunkShapes(nChunks) :
          nChunks < MaxChunks /\ WriteChunk(name, shape)
    \/ ExpandSync1
    \/ ExpandSync2
    \/ EndFrame
    \/ EndFrameSync

Spec == Init /\ [][Next]_vars

(* ------------------------------ round trip ----------------------------- *)

\* The last record of (frame, name) in a log of writes.
LastWrite(log, frame, name) ==
    LET I == {i \in 1..Len(log) : log[i].frame = frame /\ log[i].name = name}
    IN  log[CHOOSE i \in I : \A j \in I : j <= i]

Written(log, frame, name) ==
    \E i \in 1..Len(log) : log[i].frame = frame /\ log[i].name = name

\* What a caller gets from gsd_find_chunk(frame, name) followed by
\* gsd_read_chunk on handle h over file f.
ReadBack(h, f, frame, name) ==
    LET c == gsd_find_chunk(h, frame, name)
        e == IndexAt(h.index, c)
    IN  IF c = NULL
        THEN [found |-> FALSE, entry |-> ZeroEntry, type |-> 0, N |-> 0, M |-> 0,
              ret |-> "NULL", data |-> <<>>]
        ELSE [found |-> TRUE, entry |-> e, type |-> e.type, N |-> e.N, M |-> e.M,
              ret |-> gsd_read_chunk(h, f, e).ret,
              data |-> gsd_read_chunk(h, f, e).data]

ReadOnlyOpen ==
    pc = "idle" /\ fdOpen /\ handle.open_flags = "GSD_OPEN_READONLY"

\* C1: on a file reopened read-only, for every frame f and every name n written
\* in f and committed by end_frame, find_chunk(f, n) returns an entry whose
\* type, N and M are those of the last write_chunk(n) of frame f, and read_chunk
\* returns exactly that write's payload bytes.
RoundTrip ==
    ReadOnlyOpen =>
        \A i \in 1..Len(committedLog) :
            LET w == LastWrite(committedLog, committedLog[i].frame, committedLog[i].name)
                r == ReadBack(handle, file, w.frame, w.name)
            IN  /\ r.found
                /\ r.type = w.type /\ r.N = w.N /\ r.M = w.M
                /\ r.ret = "GSD_SUCCESS"
                /\ r.data = w.data

\* C2: on a read-only or read/write handle, for every ended frame f and every
\* name n, find_chunk(f, n) is NULL if and only if no write_chunk(n) occurred
\* during frame f.
FindChunkNullIffNotWritten ==
    (pc = "idle" /\ fdOpen
     /\ handle.open_flags \in {"GSD_OPEN_READONLY", "GSD_OPEN_READWRITE"}) =>
        \A f \in 0..(gsd_get_nframes(handle) - 1), n \in ChunkNames :
            (gsd_find_chunk(handle, f, n) = NULL) <=> ~Written(committedLog, f, n)

(* ----------------------------- crash safety ---------------------------- *)

\* The writes of ws whose positions are in S, in order.
SubWrites(ws, S) ==
    LET F[i \in 0..Len(ws)] ==
            IF i = 0 THEN <<>>
            ELSE IF i \in S THEN Append(F[i - 1], ws[i]) ELSE F[i - 1]
    IN  F[Len(ws)]

\* The files a crash can leave: what was fsync-ed plus any subset of the later
\* writes.
CrashImages ==
    {ApplyWrites(durable, SubWrites(unsynced, S)) : S \in SUBSET (1..Len(unsynced))}

Missing == [k |-> "X"]

\* The cell at offset off of file f, Missing past end-of-file.
CellAt(f, off) == IF off < Len(f) THEN f[off + 1] ELSE Missing

\* The image's header points at the new region, which is fully written and
\* holds every committed entry in its low half.
NewRegionComplete(img) ==
    LET hd == AsHeader(img[1])
        old == xp.handle.header
    IN  /\ hd = handle.header
        /\ hd.index_location # old.index_location
        /\ \A i \in 0..(xp.handle.index_written_entries - 1) :
              CellAt(img, hd.index_location + i) = CellAt(xp.file, old.index_location + i)
        /\ \A i \in 0..(hd.index_allocated_entries - 1) :
              CellAt(img, hd.index_location + i) # Missing

\* C3 as stated: in every crash image during gsd_expand_index the header points
\* at the old region, which holds every committed entry, or at the new region,
\* fully written with every committed entry in its low half.
ExpandCrashSafeStrict ==
    xp.on =>
        \A img \in CrashImages :
            LET old == xp.handle.header
            IN  \/ /\ AsHeader(img[1]) = old
                   /\ \A i \in 0..(xp.handle.index_written_entries - 1) :
                         CellAt(img, old.index_location + i)
                             = CellAt(xp.file, old.index_location + i)
                \/ NewRegionComplete(img)

\* C3, amended: in every crash image during gsd_expand_index the header points
\* at the old region, every slot of which is as it was before the expansion
\* (committed, or as last fsync-ed when its end_frame did not fsync), or at the
\* new region, fully written with every committed entry in its low half.
ExpandCrashSafe ==
    xp.on =>
        \A img \in CrashImages :
            LET old == xp.handle.header
            IN  \/ /\ AsHeader(img[1]) = old
                   /\ \A i \in 0..(old.index_allocated_entries - 1) :
                         CellAt(img, old.index_location + i)
                             \in {CellAt(xp.file, old.index_location + i),
                                  CellAt(xp.durable, old.index_location + i)}
                   /\ \A i \in 0..(xp.handle.index_written_entries - 1) :
                         CellAt(xp.durable, old.index_location + i)
                                 = CellAt(xp.file, old.index_location + i)
                             => CellAt(img, old.index_location + i)
                                 = CellAt(xp.file, old.index_location + i)
                \/ NewRegionComplete(img)

\* An expansion with committed entries has written the new header, and a crash
\* can leave either header.
ExpandCrashPoint ==
    /\ xp.on
    /\ pc = "expand_fsync2"
    /\ xp.handle.index_written_entries > 0
    /\ \E img \in CrashImages : AsHeader(img[1]) = handle.header
    /\ \E img \in CrashImages : AsHeader(img[1]) = xp.handle.header

(* ------------------------------ expansion ------------------------------ *)

\* C4: when a write_chunk that expanded the index returns,
\* index_allocated_entries is exactly doubled, entries
\* 0 .. index_written_entries-1 at the new index_location are the entries at
\* the old location before the expansion, and every find_chunk/read_chunk that
\* succeeded before the expansion returns the same entry and bytes.
ExpandPreservesCommitted ==
    [][(pc = "expand_fsync2" /\ pc' = "idle") =>
        LET old == xp.handle.header
            new == handle'.header
        IN  /\ new.index_allocated_entries = 2 * old.index_allocated_entries
            /\ handle'.index_written_entries = xp.handle.index_written_entries
            /\ \A i \in 0..(xp.handle.index_written_entries - 1) :
                  /\ CellAt(file', new.index_location + i)
                        = CellAt(xp.file, old.index_location + i)
                  /\ CellAt(file', new.index_location + i) \notin {Zero, Missing}
            /\ \A f \in 0..(xp.handle.cur_frame - 1), n \in ChunkNames :
                  ReadBack(xp.handle, xp.file, f, n).found =>
                      ReadBack(handle', file', f, n)
                          = ReadBack(xp.handle, xp.file, f, n)]_vars

\* An expansion on a read/write handle that holds committed chunks, about to
\* return to gsd_write_chunk.
ExpandingWithCommitted ==
    /\ pc = "expand_fsync2"
    /\ xp.handle.open_flags = "GSD_OPEN_READWRITE"
    /\ \E f \in 0..(xp.handle.cur_frame - 1), n \in ChunkNames :
          /\ ReadBack(xp.handle, xp.file, f, n).found
          /\ ReadBack(xp.handle, xp.file, f, n).ret = "GSD_SUCCESS"

(* --------------------------- commit visibility ------------------------- *)

Writable == handle.open_flags \in {"GSD_OPEN_READWRITE", "GSD_OPEN_APPEND"}

\* C5: between a successful write_chunk and the next end_frame the index region
\* the on-disk header references holds no entry for the staged chunks: their
\* slots still have location == 0.
StagedEntriesNotOnDisk ==
    (pc = "idle" /\ fdOpen /\ Writable) =>
        \A i \in handle.index_written_entries..(handle.index_num_entries - 1) :
            AsEntry(CellAt(file, AsHeader(file[1]).index_location + i)).location = 0

(* -------------------------------- reopen ------------------------------- *)

\* The orders gsd_read_header may leave names[] in when it opens file f.
OpenSorts(f) == gsd_sort_name_id_pairs(NamePairs(f, AsHeader(f[1])))

\* C6: every file left by successful write_chunk and end_frame calls and a
\* close reopens with GSD_SUCCESS, in every mode.
ClosedFileReopens ==
    (pc = "idle" /\ ~fdOpen) =>
        \A flags \in OpenFlags, sorted \in OpenSorts(file) :
            gsd_read_header(file, flags, sorted).ret = "GSD_SUCCESS"

\* C8: gsd_get_nframes after a successful reopen equals gsd_get_nframes before
\* the close (0 on the freshly created file).
NframesSurviveReopen ==
    [][(~fdOpen /\ fdOpen') =>
        gsd_get_nframes(handle') = sess.nframes]_vars

\* C9: when gsd_close returns, every buffer and mapping the handle owned has
\* been released.
CloseReleasesAll ==
    [][(fdOpen /\ ~fdOpen') => heap' \cap Owned(handle) = {}]_vars

(* ------------------------------ append mode ---------------------------- *)

\* The writes committed by the last writable session.
SessionLog == SubSeq(committedLog, sess.logStart + 1, Len(committedLog))

\* C10: after an append session on a file of k frames that wrote chunks and
\* called end_frame once, a read-only reopen succeeds with get_nframes = k+1,
\* find_chunk(k, name) resolves to the chunk last written under name, and every
\* (frame < k, name) reads as it did before the session.
AppendSessionReadsBack ==
    (pc = "idle" /\ ~fdOpen /\ sess.flags = "GSD_OPEN_APPEND" /\ sess.ended = 1
     /\ SessionLog # <<>>) =>
        \A sorted \in OpenSorts(file) :
            LET r == gsd_read_header(file, "GSD_OPEN_READONLY", sorted)
            IN  /\ r.ret = "GSD_SUCCESS"
                /\ gsd_get_nframes(r.handle) = sess.k + 1
                /\ \A i \in 1..Len(SessionLog) :
                      LET w == LastWrite(SessionLog, sess.k, SessionLog[i].name)
                          b == ReadBack(r.handle, file, sess.k, w.name)
                      IN  /\ b.found
                          /\ b.type = w.type /\ b.N = w.N /\ b.M = w.M
                          /\ b.ret = "GSD_SUCCESS"
                          /\ b.data = w.data
                /\ \A f \in 0..(sess.k - 1), n \in ChunkNames :
                      \A sorted0 \in OpenSorts(sess.file0) :
                          LET r0 == gsd_read_header(sess.file0, "GSD_OPEN_READONLY",
                                                    sorted0)
                          IN  r0.ret = "GSD_SUCCESS" =>
                                ReadBack(r.handle, file, f, n)
                                    = ReadBack(r0.handle, sess.file0, f, n)

(* ---------------------------- name iteration --------------------------- *)

\* The names committed names are drawn from: "1", "11", "12", "2", "21", "22".
NameUniverse == {<<1>>, <<1, 1>>, <<1, 2>>, <<2>>, <<2, 1>>, <<2, 2>>}

\* The prefixes callers iterate over: "1", "2", "11".
MatchNames == {<<1>>, <<2>>, <<1, 1>>}

\* names[] of a handle whose namelist holds the names of S, ids in namelist
\* order: every order the sort at end_frame or open may leave.
NamesOf(S) ==
    LET n == Cardinality(S)
        q == CHOOSE f \in [1..n -> S] : \A i, j \in 1..n : i # j => f[i] # f[j]
    IN  gsd_sort_name_id_pairs([i \in 1..n |-> [name |-> q[i], id |-> i - 1]])

\* A read-only handle with the committed names of S, and a caller about to
\* start the loop over gsd_find_matching_chunk_name(match, prev = NULL).
InitNames ==
    /\ \E S \in SUBSET NameUniverse, match \in MatchNames :
        /\ Cardinality(S) <= MaxNames
        /\ \E sorted \in NamesOf(S) :
            handle = [ZeroHandle EXCEPT
                        !.open_flags = "GSD_OPEN_READONLY",
                        !.names = sorted,
                        !.names_ptr = TRUE,
                        !.names_allocated_size = Max(Cardinality(S), 1),
                        !.namelist_num_entries = Cardinality(S),
                        !.namelist_written_entries = Cardinality(S)]
        /\ iter = [match |-> match, prev |-> NULLNAME, out |-> <<>>, done |-> FALSE]
    /\ created = DefaultCreate
    /\ file = gsd_initialize_file(created.application, created.schema,
                                  created.schema_version)
    /\ durable = file
    /\ unsynced = <<>>
    /\ fdOpen = TRUE
    /\ heap = {"names"}
    /\ pc = "idle"
    /\ pend = ZeroEntry
    /\ ret = "GSD_SUCCESS"
    /\ committedLog = <<>>
    /\ stagedLog = <<>>
    /\ nChunks = 0
    /\ sess = NoSession
    /\ xp = NoXp

\* One turn of the caller's loop: call gsd_find_matching_chunk_name(match,
\* prev), stop on NULL, else record the name and pass it as the next prev.
IterStep ==
    /\ ~iter.done
    /\ LET r == gsd_find_matching_chunk_name(handle, iter.match, iter.prev)
       IN  iter' = IF r = NULLNAME
                   THEN [iter EXCEPT !.done = TRUE]
                   ELSE [iter EXCEPT !.prev = r, !.out = Append(@, r)]
    /\ UNCHANGED <<file, durable, unsynced, handle, fdOpen, heap, pc, pend, ret,
                   committedLog, stagedLog, nChunks, sess, xp, created>>

NextNames == IterStep

SpecNames == InitNames /\ [][NextNames]_vars

\* match is a prefix of name.
HasPrefix(name, match) ==
    Len(match) <= Len(name) /\ SubSeq(name, 1, Len(match)) = match

\* C7: the loop from prev = NULL until NULL is returned yields every committed
\* name that has prefix match exactly once.
EnumeratesEachMatchOnce ==
    iter.done =>
        \A i \in 1..handle.namelist_written_entries :
            HasPrefix(handle.names[i].name, iter.match) =>
                Cardinality({j \in 1..Len(iter.out) :
                                iter.out[j] = handle.names[i].name}) = 1

(* ------------------------------- API runs ------------------------------ *)

\* The names callers use in the API runs: the k-th payload of a run goes under
\* a new name of its own; once GSD_INITIAL_NAMELIST_SIZE payloads were written
\* a caller uses the first name again.
ApiNames(k) ==
    IF k < GSD_INITIAL_NAMELIST_SIZE THEN {<<k + 1>>} ELSE {<<1>>}

\* Arguments gsd_write_chunk must refuse: data == NULL, N == 0, M == 0, an
\* unknown type code, flags != 0.
BadShapes ==
    {[type |-> GSD_TYPE_UINT8, N |-> 1, M |-> 1, flags |-> 0, data |-> NULLDATA],
     [type |-> GSD_TYPE_UINT8, N |-> 0, M |-> 1, flags |-> 0, data |-> <<>>],
     [type |-> GSD_TYPE_UINT8, N |-> 1, M |-> 0, flags |-> 0, data |-> <<>>],
     [type |-> 0, N |-> 1, M |-> 1, flags |-> 0, data |-> <<9>>],
     [type |-> GSD_TYPE_DOUBLE + 1, N |-> 1, M |-> 1, flags |-> 0, data |-> <<9>>],
     [type |-> GSD_TYPE_UINT8, N |-> 1, M |-> 1, flags |-> 1, data |-> <<9>>]}

\* A caller of the whole API: valid and refused writes, end_frame, truncate,
\* close and reopen.  One payload more than the namelist holds names can be
\* written, and a handle whose namelist is full is also asked to write under
\* a name it never saw.
NextApi ==
    \/ \E flags \in OpenFlags : Open(flags)
    \/ Close
    \/ \E name \in ApiNames(nChunks), shape \in ChunkShapes(nChunks) :
          nChunks < Max(MaxChunks, GSD_INITIAL_NAMELIST_SIZE + 1)
          /\ WriteChunk(name, shape)
    \/ \E name \in ApiNames(nChunks), shape \in BadShapes : WriteChunk(name, shape)
    \/ \E shape \in ChunkShapes(nChunks) :
          /\ handle.namelist_num_entries = handle.header.namelist_allocated_entries
          /\ WriteChunk(<<nChunks + 1>>, shape)
    \/ ExpandSync1
    \/ ExpandSync2
    \/ EndFrame
    \/ EndFrameSync
    \/ Truncate

SpecApi == Init /\ [][NextApi]_vars

\* Every name a caller of an API run can pass.
ApiNameUniverse ==
    ChunkNames \cup {<<k + 1>> : k \in 0..(MaxChunks + GSD_INITIAL_NAMELIST_SIZE + 1)}

(* ------------------------------- truncate ------------------------------ *)

\* C11: gsd_truncate on a writable handle, from any state, leaves
\* application, schema and schema_version as they were and resets the rest:
\* get_nframes is 0, index_num_entries is 0, the namelist is empty,
\* index_allocated_entries is GSD_INITIAL_INDEX_SIZE and find_chunk(0, name)
\* is NULL for every name.
TruncateResets ==
    [][(Truncate /\ Writable) =>
        /\ ret' = "GSD_SUCCESS"
        /\ handle'.header.application = handle.header.application
        /\ handle'.header.schema = handle.header.schema
        /\ handle'.header.schema_version = handle.header.schema_version
        /\ handle'.open_flags = handle.open_flags
        /\ gsd_get_nframes(handle') = 0
        /\ handle'.index_num_entries = 0
        /\ handle'.index_written_entries = 0
        /\ handle'.namelist_num_entries = 0
        /\ handle'.namelist_written_entries = 0
        /\ handle'.names = <<>>
        /\ handle'.header.index_allocated_entries = GSD_INITIAL_INDEX_SIZE
        /\ handle'.header.namelist_allocated_entries = GSD_INITIAL_NAMELIST_SIZE
        /\ handle'.file_size = Len(file')
        /\ AsHeader(file'[1]) = handle'.header
        /\ \A name \in ApiNameUniverse : gsd_find_chunk(handle', 0, name) = NULL]_vars

\* A file that held frames when it was last closed, reopened for writing and
\* truncated: the handle is open and the file is the initial file again.
TruncatedAfterFrames ==
    /\ fdOpen
    /\ pc = "idle"
    /\ Writable
    /\ sess.nframes > 0
    /\ nChunks > 0
    /\ committedLog = <<>>
    /\ file = gsd_initialize_file(handle.header.application,
                                  handle.header.schema,
                                  handle.header.schema_version)

(* -------------------------------- create ------------------------------- *)

\* The application and schema strings callers pass to gsd_create: short ones,
\* one that fills the header field and one that is a character too long.
CreateStrings ==
    {<<1>>, <<2>>, [i \in 1..NameMax |-> i], [i \in 1..(NameMax + 1) |-> i]}

CreateVersions == {0, gsd_make_version(1, 4)}

\* gsd_create(fname, application, schema, schema_version) with any arguments.
InitCreate ==
    /\ created \in [application : CreateStrings, schema : CreateStrings,
                    schema_version : CreateVersions]
    /\ file = gsd_initialize_file(created.application, created.schema,
                                  created.schema_version)
    /\ durable = file
    /\ unsynced = <<>>
    /\ handle = ZeroHandle
    /\ fdOpen = FALSE
    /\ heap = {}
    /\ pc = "idle"
    /\ pend = ZeroEntry
    /\ ret = "GSD_SUCCESS"
    /\ committedLog = <<>>
    /\ stagedLog = <<>>
    /\ nChunks = 0
    /\ sess = NoSession
    /\ xp = NoXp
    /\ iter = NoIter

NextCreate ==
    \/ \E flags \in OpenFlags : Open(flags)
    \/ Close

SpecCreate == InitCreate /\ [][NextCreate]_vars

\* C12: after gsd_create(fname, application, schema, schema_version), an open
\* in any mode succeeds with get_nframes 0, index_num_entries 0, no names,
\* index_allocated_entries GSD_INITIAL_INDEX_SIZE, namelist_allocated_entries
\* GSD_INITIAL_NAMELIST_SIZE, and header fields equal to the arguments, the
\* strings cut to the size of their fields.
CreatedFileOpensEmpty ==
    /\ ret = "GSD_SUCCESS"
    /\ fdOpen =>
        /\ handle.open_flags \in OpenFlags
        /\ gsd_get_nframes(handle) = 0
        /\ handle.index_num_entries = 0
        /\ handle.namelist_num_entries = 0
        /\ handle.names = <<>>
        /\ \A match \in {<<>>} \cup CreateStrings :
              gsd_find_matching_chunk_name(handle, match, NULLNAME) = NULLNAME
        /\ handle.header.index_allocated_entries = GSD_INITIAL_INDEX_SIZE
        /\ handle.header.namelist_allocated_entries = GSD_INITIAL_NAMELIST_SIZE
        /\ handle.header.magic = GSD_MAGIC_ID
        /\ handle.header.application = Take(created.application, NameMax)
        /\ handle.header.schema = Take(created.schema, NameMax)
        /\ handle.header.schema_version = created.schema_version

\* A file created with an application string longer than its header field,
\* open for appending.
OverlongApplicationOpened ==
    /\ fdOpen
    /\ handle.open_flags = "GSD_OPEN_APPEND"
    /\ Len(created.application) > NameMax
    /\ created.schema_version # 0

(* --------------------------- index invariants -------------------------- *)

\* Entry i of the index as the handle holds it: in append mode the committed
\* entries are in the file only and handle->index holds the staged ones.
HandleEntry(i) ==
    IF handle.open_flags = "GSD_OPEN_APPEND"
    THEN IF i < handle.index_written_entries
         THEN AsEntry(CellAt(file, handle.header.index_location + i))
         ELSE IndexAt(handle.index, i - handle.index_written_entries)
    ELSE IndexAt(handle.index, i)

EntrySize(e) == e.N * e.M * gsd_sizeof_type(e.type)

\* C13: every index entry write_chunk created has location != 0 and
\* location + N*M*sizeof(type) <= handle.file_size from the moment it is
\* staged on (after end_frame, after index expansion), and handle.file_size
\* is the end-of-file offset after every successful operation.
EntriesInsideFile ==
    fdOpen =>
        /\ handle.file_size = Len(file)
        /\ \A i \in 0..(handle.index_num_entries - 1) :
              /\ HandleEntry(i).location # 0
              /\ HandleEntry(i).location > 0
              /\ EntrySize(HandleEntry(i)) > 0
              /\ HandleEntry(i).location + EntrySize(HandleEntry(i))
                    <= handle.file_size

\* An append handle after an index expansion returned, holding committed
\* entries in the file and a staged entry in memory.
ExpandedWithStaged ==
    /\ fdOpen
    /\ pc = "idle"
    /\ ret = "GSD_SUCCESS"
    /\ handle.open_flags = "GSD_OPEN_APPEND"
    /\ handle.header.index_allocated_entries > GSD_INITIAL_INDEX_SIZE
    /\ handle.index_written_entries > 0
    /\ handle.index_num_entries > handle.index_written_entries

\* Slot i of the index block in the file, at the location the handle's header
\* gives.
DiskEntry(i) == AsEntry(CellAt(file, handle.header.index_location + i))

\* C14: on a writable handle, in every state, entries 0 .. index_num_entries-1
\* (committed, then staged) have location != 0, every later slot of the index
\* block in the file has location == 0, and frame is non-decreasing over
\* entries 0 .. index_num_entries-1; after every end_frame the index block in
\* the file has the same shape.
IndexDensePrefix ==
    (fdOpen /\ Writable) =>
        /\ \A i \in 0..(handle.index_num_entries - 1) : HandleEntry(i).location # 0
        /\ \A i \in handle.index_num_entries
                    ..(handle.header.index_allocated_entries - 1) :
              /\ handle.header.index_location + i < Len(file)
              /\ DiskEntry(i).location = 0
        /\ \A i, j \in 0..(handle.index_num_entries - 1) :
              i <= j => HandleEntry(i).frame <= HandleEntry(j).frame
        /\ handle.index_written_entries = handle.index_num_entries =>
              /\ \A i \in 0..(handle.index_num_entries - 1) :
                    /\ DiskEntry(i).location # 0
                    /\ DiskEntry(i) = HandleEntry(i)
              /\ \A i, j \in 0..(handle.index_num_entries - 1) :
                    i <= j => DiskEntry(i).frame <= DiskEntry(j).frame

\* A writable handle after an end_frame: entries of two frames are committed
\* and free slots follow them.
TwoFramesCommitted ==
    /\ fdOpen
    /\ pc = "idle"
    /\ Writable
    /\ handle.index_written_entries = handle.index_num_entries
    /\ handle.index_num_entries >= 2
    /\ handle.index_num_entries < handle.header.index_allocated_entries
    /\ HandleEntry(0).frame < HandleEntry(handle.index_num_entries - 1).frame
    /\ stagedLog = <<>>
    /\ committedLog # <<>>

(* --------------------------- refused operations ------------------------ *)

\* The names a caller of an API run can pass in the current state.
StepNames == ApiNames(nChunks) \cup {<<nChunks + 1>>}

\* C15: on a read-only handle, write_chunk with otherwise valid arguments,
\* end_frame and truncate each return GSD_ERROR_FILE_MUST_BE_WRITABLE and
\* change neither the handle (cur_frame, index_num_entries,
\* namelist_num_entries, file_size) nor any byte of the file.
ReadOnlyRefusesWrites ==
    [][(/\ handle.open_flags = "GSD_OPEN_READONLY"
        /\ \/ \E name \in StepNames, shape \in ChunkShapes(nChunks) :
                 WriteChunk(name, shape)
           \/ EndFrame
           \/ Truncate) =>
        /\ ret' = "GSD_ERROR_FILE_MUST_BE_WRITABLE"
        /\ handle' = handle
        /\ file' = file
        /\ durable' = durable
        /\ unsynced' = unsynced
        /\ fdOpen' = fdOpen
        /\ pc' = pc]_vars

\* A read-only handle on a file with committed chunks that just refused a
\* writing call.
ReadOnlyRefused ==
    /\ fdOpen
    /\ pc = "idle"
    /\ handle.open_flags = "GSD_OPEN_READONLY"
    /\ ret = "GSD_ERROR_FILE_MUST_BE_WRITABLE"
    /\ handle.index_num_entries > 0
    /\ handle.cur_frame > 0

\* C16: on an append handle, find_chunk returns NULL for every (frame, name),
\* and read_chunk returns GSD_ERROR_FILE_MUST_BE_READABLE for every non-NULL
\* chunk and destination, whatever the file holds (it is not read) and with
\* no change of the handle.
AppendCannotRead ==
    (fdOpen /\ handle.open_flags = "GSD_OPEN_APPEND") =>
        /\ \A frame \in 0..(MaxFrames + 1), name \in ApiNameUniverse :
              gsd_find_chunk(handle, frame, name) = NULL
        /\ \A chunk \in {HandleEntry(i) : i \in 0..(handle.index_num_entries - 1)}
                        \cup {ZeroEntry} :
              /\ gsd_read_chunk(handle, file, chunk)
                    = [ret |-> "GSD_ERROR_FILE_MUST_BE_READABLE", data |-> <<>>]
              /\ gsd_read_chunk(handle, <<>>, chunk)
                    = gsd_read_chunk(handle, file, chunk)

\* An append handle on a file with a committed chunk whose name the handle
\* knows and whose frame is below get_nframes.
AppendHandleWithChunks ==
    /\ fdOpen
    /\ pc = "idle"
    /\ handle.open_flags = "GSD_OPEN_APPEND"
    /\ handle.index_written_entries > 0
    /\ committedLog # <<>>
    /\ committedLog[1].frame < gsd_get_nframes(handle)
    /\ gsd_get_id(handle, committedLog[1].name) # UINT16_MAX

\* C17: on a writable handle, write_chunk with data == NULL, N == 0, M == 0,
\* an unknown type code or flags != 0 returns GSD_ERROR_INVALID_ARGUMENT and
\* leaves the handle and the file as they were: no name is appended, no
\* payload is written, file_size, index_num_entries and cur_frame keep their
\* values.
BadArgumentsRefused ==
    [][(/\ Writable
        /\ \E name \in StepNames, shape \in BadShapes :
              WriteChunk(name, shape)) =>
        /\ ret' = "GSD_ERROR_INVALID_ARGUMENT"
        /\ handle' = handle
        /\ file' = file
        /\ durable' = durable
        /\ unsynced' = unsynced
        /\ heap' = heap
        /\ pc' = pc]_vars

\* A writable handle with a staged entry that just refused a write_chunk.
BadArgumentsMet ==
    /\ fdOpen
    /\ pc = "idle"
    /\ Writable
    /\ ret = "GSD_ERROR_INVALID_ARGUMENT"
    /\ handle.index_num_entries > handle.index_written_entries
    /\ handle.namelist_num_entries < handle.header.namelist_allocated_entries

(* ----------------------------- full namelist --------------------------- *)

NamelistFull ==
    handle.namelist_num_entries = handle.header.namelist_allocated_entries

\* name is in the committed part of the namelist.
CommittedName(name) ==
    \E i \in 1..handle.namelist_written_entries : handle.namelist[i] = name

\* C18: when namelist_num_entries == namelist_allocated_entries, write_chunk
\* with a name gsd_get_id does not find returns GSD_ERROR_NAMELIST_FULL,
\* writes no payload, stages no entry and leaves file_size, index_num_entries
\* and namelist_num_entries as they were; write_chunk with a committed name
\* still succeeds.
FullNamelistRefusesNewNames ==
    [][(fdOpen /\ pc = "idle" /\ Writable /\ NamelistFull) =>
       \A name \in StepNames, shape \in ChunkShapes(nChunks) :
        WriteChunk(name, shape) =>
            /\ gsd_get_id(handle, name) = UINT16_MAX =>
                  /\ ret' = "GSD_ERROR_NAMELIST_FULL"
                  /\ handle' = handle
                  /\ file' = file
                  /\ unsynced' = unsynced
                  /\ pc' = pc
            /\ CommittedName(name) =>
                  /\ gsd_get_id(handle, name) # UINT16_MAX
                  /\ Len(file') > Len(file)
                  /\ handle'.namelist_num_entries = handle.namelist_num_entries
                  /\ \/ /\ pc' = "idle"
                        /\ ret' = "GSD_SUCCESS"
                        /\ handle'.index_num_entries = handle.index_num_entries + 1
                     \/ /\ pc' = "expand_fsync1"
                        /\ pend'.location = handle.file_size]_vars

\* A handle whose namelist is full and committed staged an entry under a
\* committed name and then refused a name it does not know.
NewNameRefusedWhenFull ==
    /\ fdOpen
    /\ pc = "idle"
    /\ Writable
    /\ NamelistFull
    /\ handle.namelist_written_entries = handle.namelist_num_entries
    /\ handle.index_num_entries > handle.index_written_entries
    /\ ret = "GSD_ERROR_NAMELIST_FULL"

(* --------------------------- damaged index entry ----------------------- *)

\* Payloads written in a run that ends with a damaged file.
MaxCorruptChunks == 5

\* Slot i of the index block of file f, at the location f's header gives.
FileEntry(f, i) == AsEntry(CellAt(f, AsHeader(f[1]).index_location + i))

\* The number of entries of file f's index block before the first slot with
\* location == 0.
FileEntries(f) ==
    Cardinality({i \in 0..(AsHeader(f[1]).index_allocated_entries - 1) :
                    \A j \in 0..i : FileEntry(f, j).location # 0})

\* index[3] of file f is in use and its location is past end-of-file.
Entry3PastEOF(f) ==
    /\ FileEntry(f, 3).location > Len(f)
    /\ FileEntries(f) >= 4

\* The closed file is damaged: the location of index[3] is set past
\* end-of-file.
CorruptEntry3 ==
    /\ pc = "idle"
    /\ ~fdOpen
    /\ FileEntries(file) >= 4
    /\ ~Entry3PastEOF(file)
    /\ LET off == AsHeader(file[1]).index_location + 3
           e == [FileEntry(file, 3) EXCEPT !.location = Len(file) + 1]
       IN  /\ file' = PWrite(file, off, <<EntryCell(e)>>)
           /\ durable' = PWrite(durable, off, <<EntryCell(e)>>)
    /\ UNCHANGED <<unsynced, handle, fdOpen, heap, pc, pend, ret, committedLog,
                   stagedLog, nChunks, sess, xp, iter, created>>

\* The entries staged in the current frame.
Staged == handle.index_num_entries - handle.index_written_entries

\* The index block or the namelist block of file f extends past end-of-file.
RegionPastEOF(f) ==
    LET hdr == AsHeader(f[1])
    IN  \/ hdr.index_location + hdr.index_allocated_entries > Len(f)
        \/ hdr.namelist_location + hdr.namelist_allocated_entries > Len(f)

\* Runs of a caller that writes up to MaxCorruptChunks payloads into a sound
\* file, the i-th chunk of every frame under the i-th name, ends every frame
\* it wrote to and closes the handle with nothing staged.
OrderlyWrite ==
    \E shape \in ChunkShapes(nChunks) :
        /\ nChunks < MaxCorruptChunks
        /\ Writable
        /\ ~RegionPastEOF(file)
        /\ Staged < GSD_INITIAL_NAMELIST_SIZE
        /\ WriteChunk(<<Staged + 1>>, shape)

OrderlyEndFrame == Staged > 0 /\ EndFrame

OrderlyClose == Staged = 0 /\ Close

\* The closed file is damaged and opened again.
NextCorrupt ==
    \/ \E flags \in OpenFlags : Open(flags)
    \/ OrderlyClose
    \/ OrderlyWrite
    \/ ExpandSync1
    \/ ExpandSync2
    \/ OrderlyEndFrame
    \/ EndFrameSync
    \/ CorruptEntry3

SpecCorrupt == Init /\ [][NextCorrupt]_vars

CutFile ==
    /\ pc = "idle"
    /\ ~fdOpen
    /\ ~RegionPastEOF(file)
    /\ \E k \in 1..MaxCut :
          /\ k < Len(file)
          /\ RegionPastEOF(SubSeq(file, 1, Len(file) - k))
          /\ file' = SubSeq(file, 1, Len(file) - k)
          /\ durable' = file'
    /\ UNCHANGED <<unsynced, handle, fdOpen, heap, pc, pend, ret, committedLog,
                   stagedLog, nChunks, sess, xp, iter, created>>

NextCut ==
    \/ \E flags \in OpenFlags : Open(flags)
    \/ OrderlyClose
    \/ OrderlyWrite
    \/ ExpandSync1
    \/ ExpandSync2
    \/ OrderlyEndFrame
    \/ EndFrameSync
    \/ CutFile

SpecCut == Init /\ [][NextCut]_vars

\* C20: gsd_open returns GSD_ERROR_FILE_CORRUPT in every mode when the index
\* block or the namelist block extends past end-of-file.
RegionsPastEOFRefused ==
    [][(~fdOpen /\ RegionPastEOF(file) /\ \E flags \in OpenFlags : Open(flags)) =>
        (ret' = "GSD_ERROR_FILE_CORRUPT" /\ ~fdOpen')]_vars

(* ------------------------------ header gate ---------------------------- *)

\* The magic numbers found in files: the right one and a damaged one.
HeaderMagics == {GSD_MAGIC_ID, "0x65DF65DF65DF65DE"}

\* The gsd_version values found in files, major << 16 | minor.
HeaderVersions ==
    {major * 65536 + minor : major \in 0..2, minor \in {0, 2, 3, 4, 65535}}

\* A file too short for a header, or a newly created file whose header holds
\* any magic number and any version.
InitHeader ==
    /\ created = DefaultCreate
    /\ \/ file = <<>>
       \/ \E m \in HeaderMagics, v \in HeaderVersions :
             file = PWrite(gsd_initialize_file(created.application, created.schema,
                                               created.schema_version),
                           0,
                           <<HeaderCell([InitialHeader(created.application,
                                                       created.schema,
                                                       created.schema_version)
                                           EXCEPT !.magic = m,
                                                  !.gsd_version = v])>>)
    /\ durable = file
    /\ unsynced = <<>>
    /\ handle = ZeroHandle
    /\ fdOpen = FALSE
    /\ heap = {}
    /\ pc = "idle"
    /\ pend = ZeroEntry
    /\ ret = "GSD_SUCCESS"
    /\ committedLog = <<>>
    /\ stagedLog = <<>>
    /\ nChunks = 0
    /\ sess = NoSession
    /\ xp = NoXp
    /\ iter = NoIter

NextHeader ==
    \/ \E flags \in OpenFlags : Open(flags)
    \/ Close

SpecHeader == InitHeader /\ [][NextHeader]_vars

\* What the header gate owes file f.
GateResult(f) ==
    IF Len(f) < 1 \/ HeaderOf(f).magic # GSD_MAGIC_ID
    THEN "GSD_ERROR_NOT_A_GSD_FILE"
    ELSE IF HeaderOf(f).gsd_version # 3
            /\ ~(65536 <= HeaderOf(f).gsd_version /\ HeaderOf(f).gsd_version < 131072)
    THEN "GSD_ERROR_INVALID_GSD_FILE_VERSION"
    ELSE "GSD_SUCCESS"

\* C21: gsd_open gives GSD_ERROR_NOT_A_GSD_FILE for a file shorter than the
\* header or with a wrong magic number, whatever its version; otherwise it
\* gives GSD_ERROR_INVALID_GSD_FILE_VERSION exactly when gsd_version is not
\* (0,3) and not in [(1,0), (2,0)).
HeaderGate ==
    [][(~fdOpen /\ \E flags \in OpenFlags : Open(flags)) =>
        (ret' = GateResult(file) /\ fdOpen' = (GateResult(file) = "GSD_SUCCESS"))]_vars

\* A file of version (0,4) with the right magic number that an open refused.
OldVersionRefused ==
    /\ ~fdOpen
    /\ Len(file) >= 1
    /\ HeaderOf(file).magic = GSD_MAGIC_ID
    /\ HeaderOf(file).gsd_version = 4
    /\ ret = "GSD_ERROR_INVALID_GSD_FILE_VERSION"

(* -------------------------- crash during end_frame --------------------- *)

\* The files a crash inside the running gsd_end_frame can leave: the file
\* after the index tail write, and the file after the namelist tail write.
EndFramePoints ==
    {ApplyWrites(file, IndexTailWrite(handle)),
     ApplyWrites(file, IndexTailWrite(handle) \o NamelistTailWrite(handle))}

\* The number of non-empty names at the start of file f's namelist block.
FileNames(f) == Len(NamePairs(f, HeaderOf(f)))

\* C22: at every intermediate point of end_frame the file, if reopened, does
\* not yield GSD_ERROR_FILE_CORRUPT; in particular every index entry in the
\* file with location != 0 has an id smaller than the number of non-empty
\* names in the file's namelist.
EndFrameCrashReopens ==
    [][(fdOpen /\ pc = "idle" /\ Writable /\ EndFrame) =>
        \A img \in EndFramePoints :
            /\ \A i \in 0..(HeaderOf(img).index_allocated_entries - 1) :
                  FileEntry(img, i).location # 0 =>
                      FileEntry(img, i).id < FileNames(img)
            /\ \A flags \in OpenFlags, sorted \in OpenSorts(img) :
                  gsd_read_header(img, flags, sorted).ret
                      # "GSD_ERROR_FILE_CORRUPT"]_vars

(* ----------------------- find_chunk against a scan --------------------- *)

\* The linear-scan reference: the positions among 0..index_num_entries-1 whose
\* entry has the frame and the id.
ScanHits(frame, id) ==
    {i \in 0..(handle.index_num_entries - 1) :
        HandleEntry(i).frame = frame /\ HandleEntry(i).id = id}

ScanMax(S) == CHOOSE i \in S : \A j \in S : j <= i

\* C23: on a read-only or read/write handle, for frame < cur_frame and a name
\* whose id is found, gsd_find_chunk returns the highest-index entry among
\* 0..index_num_entries-1 with that frame and id, NULL when there is none, and
\* never an unused slot.
FindChunkMatchesScan ==
    (pc = "idle" /\ fdOpen
       /\ handle.open_flags \in {"GSD_OPEN_READONLY", "GSD_OPEN_READWRITE"}) =>
        \A frame \in 0..(handle.cur_frame - 1), name \in ChunkNames :
            LET id == gsd_get_id(handle, name)
                r == gsd_find_chunk(handle, frame, name)
            IN  id # UINT16_MAX =>
                    /\ r = (IF ScanHits(frame, id) = {} THEN NULL
                            ELSE ScanMax(ScanHits(frame, id)))
                    /\ r # NULL =>
                          (r < handle.index_num_entries
                             /\ HandleEntry(r).location # 0)

\* A committed frame holds two entries of one name and gsd_find_chunk returns
\* the later one.
LaterOfTwoFound ==
    /\ pc = "idle" /\ fdOpen
    /\ handle.open_flags \in {"GSD_OPEN_READONLY", "GSD_OPEN_READWRITE"}
    /\ \E frame \in 0..(handle.cur_frame - 1), name \in ChunkNames :
          /\ gsd_get_id(handle, name) # UINT16_MAX
          /\ Cardinality(ScanHits(frame, gsd_get_id(handle, name))) = 2
          /\ gsd_find_chunk(handle, frame, name)
                = ScanMax(ScanHits(frame, gsd_get_id(handle, name)))

(* ---------------------------- index bootstrap -------------------------- *)

\* What gsd_is_entry_valid compares an entry of file f with: the size of f,
\* the allocation in f's header and the number of names in f's namelist.
FileLimits(f) ==
    [file_size |-> Len(f), header |-> HeaderOf(f),
     namelist_num_entries |-> FileNames(f)]

\* The index block of file f is a dense prefix of valid entries with
\* non-decreasing frames, followed only by slots with location == 0.
DensePrefixValid(f) ==
    /\ \A i \in FileEntries(f)..(HeaderOf(f).index_allocated_entries - 1) :
          FileEntry(f, i).location = 0
    /\ \A i \in 0..(FileEntries(f) - 1) :
          gsd_is_entry_valid(FileLimits(f), FileEntry(f, i))
    /\ \A i, j \in 0..(FileEntries(f) - 1) :
          i <= j => FileEntry(f, i).frame <= FileEntry(f, j).frame

\* C24: for a file whose index is a dense prefix of k valid entries with
\* non-decreasing frames followed only by zero-location slots, open in every
\* mode succeeds with index_num_entries = index_written_entries = k and
\* cur_frame = the frame of entry k-1 plus 1 (0 when k = 0).
BootstrapCounts ==
    [][(~fdOpen /\ pc = "idle" /\ DensePrefixValid(file)
          /\ \E flags \in OpenFlags : Open(flags)) =>
        /\ ret' = "GSD_SUCCESS"
        /\ handle'.index_num_entries = FileEntries(file)
        /\ handle'.index_written_entries = FileEntries(file)
        /\ handle'.cur_frame =
              (IF FileEntries(file) = 0 THEN 0
               ELSE FileEntry(file, FileEntries(file) - 1).frame + 1)]_vars

\* A handle just opened on a file of three entries in two frames, in an index
\* block of four slots.
OpenedThreeEntries ==
    /\ fdOpen /\ pc = "idle" /\ stagedLog = <<>>
    /\ DensePrefixValid(file)
    /\ FileEntries(file) = 3
    /\ handle.index_num_entries = 3
    /\ handle.index_written_entries = 3
    /\ handle.cur_frame = 2
    /\ handle.open_flags = "GSD_OPEN_APPEND"

(* ------------------------------ name lookup ---------------------------- *)

\* The (name, id) pairs committed by the last end_frame or present at open.
CommittedPairs ==
    {handle.names[i] : i \in 1..handle.namelist_written_entries}

FailedWrite(w, k) ==
    IF k = 0 THEN <<>>
    ELSE <<[off |-> w[1].off, data |-> SubSeq(w[1].data, 1, k)]>>

\* gsd_end_frame returning GSD_ERROR_IO: at the index tail pwrite, at the
\* namelist tail pwrite, or at the fsync.
EndFrameIOError ==
    /\ pc = "idle"
    /\ fdOpen
    /\ handle.open_flags # "GSD_OPEN_READONLY"
    /\ handle.cur_frame < MaxFrames
    /\ LET iw == IndexTailWrite(handle)
           nw == NamelistTailWrite(handle)
           h1 == [handle EXCEPT !.cur_frame = @ + 1]
           h2 == [h1 EXCEPT !.index_written_entries = handle.index_num_entries]
       IN  \/ /\ iw # <<>>
              /\ \E k \in 0..(Len(iw[1].data) - 1) :
                    /\ file' = ApplyWrites(file, FailedWrite(iw, k))
                    /\ unsynced' = unsynced \o FailedWrite(iw, k)
              /\ handle' = h1
           \/ /\ nw # <<>>
              /\ \E k \in 0..(Len(nw[1].data) - 1) :
                    /\ file' = ApplyWrites(file, iw \o FailedWrite(nw, k))
                    /\ unsynced' = unsynced \o iw \o FailedWrite(nw, k)
              /\ handle' = h2
           \/ /\ nw # <<>>
              /\ file' = ApplyWrites(file, iw \o nw)
              /\ unsynced' = unsynced \o iw \o nw
              /\ \E sorted \in gsd_sort_name_id_pairs(h2.names) :
                    handle' = [h2 EXCEPT
                                 !.namelist_written_entries = h2.namelist_num_entries,
                                 !.names = sorted]
    /\ ret' = "GSD_ERROR_IO"
    /\ UNCHANGED <<durable, fdOpen, heap, pc, pend, committedLog, stagedLog,
                   nChunks, sess, xp, iter, created>>

\* The payloads a caller writes in a run with failing end_frame calls.
MaxCacheChunks == 2

\* The handle holds index entries or names that are not in the file yet.
Unwritten ==
    Staged > 0 \/ handle.namelist_num_entries > handle.namelist_written_entries

\* Runs of a caller whose end_frame may fail with an I/O error: the caller
\* ends (or truncates away) the frames it wrote to, calls end_frame again
\* after a failure, closes the handle when nothing is left unwritten, and
\* writes no more chunks than the index block has free slots.
NextCache ==
    \/ \E flags \in OpenFlags : Open(flags)
    \/ (~Unwritten /\ Close)
    \/ \E name \in ChunkNames, shape \in ChunkShapes(nChunks) :
          /\ nChunks < MaxCacheChunks
          /\ handle.index_num_entries < handle.header.index_allocated_entries
          /\ WriteChunk(name, shape)
    \/ (Unwritten /\ EndFrame)
    \/ EndFrameSync
    \/ (Unwritten /\ EndFrameIOError)
    \/ (Unwritten /\ Truncate)

SpecCache == Init /\ [][NextCache]_vars

\* The (name, id) pairs of namelist slots 0 .. namelist_written_entries-1.
WrittenSlots ==
    {[name |-> handle.namelist[i + 1], id |-> i] :
        i \in 0..(handle.namelist_written_entries - 1)}

\* C26: in every state of an open handle, names[0 .. namelist_written_entries)
\* is sorted by name and holds exactly the committed names, each paired with
\* the id of its namelist slot; the names appended during the current frame sit
\* at positions >= namelist_written_entries, in the order of their slots, and
\* are not found by lookups.
SortedPrefix ==
    fdOpen =>
        /\ handle.namelist_written_entries <= handle.namelist_num_entries
        /\ Len(handle.names) >= handle.namelist_num_entries
        /\ \A i \in 1..(handle.namelist_written_entries - 1) :
              strcmp(handle.names[i].name, handle.names[i + 1].name) <= 0
        /\ CommittedPairs = WrittenSlots
        /\ Cardinality(CommittedPairs) = handle.namelist_written_entries
        /\ \A i \in (handle.namelist_written_entries + 1)
                        ..handle.namelist_num_entries :
              /\ handle.names[i] = [name |-> handle.namelist[i], id |-> i - 1]
              /\ gsd_get_id(handle, handle.names[i].name) = UINT16_MAX

\* end_frame has failed with an I/O error at its fsync, after the sort put
\* the name of slot 1 in front of the name of slot 0.
FailedEndFrameKeepsPrefix ==
    /\ fdOpen /\ pc = "idle"
    /\ ret = "GSD_ERROR_IO"
    /\ handle.namelist_written_entries = 2
    /\ handle.names[1].id = 1
    /\ unsynced # <<>>

(* ------------------------ payload before index entry ------------------- *)

\* File f holds, at entry e's location, the bytes of a payload of e's type and
\* dimensions that gsd_write_chunk wrote.
PayloadIn(f, e) ==
    /\ e.location + EntrySize(e) <= Len(f)
    /\ \E k \in 0..MaxChunks : \E shape \in ChunkShapes(k) :
          /\ shape.type = e.type /\ shape.N = e.N /\ shape.M = e.M
          /\ \A j \in 1..EntrySize(e) :
                AsByte(CellAt(f, e.location + j - 1)) = shape.data[j]

\* C27: for every entry with location != 0 in the index region the header in
\* the file points to, the payload bytes were written to the file before the
\* entry was: the file held them before the step that put the entry there, in
\* both writable modes and across index expansion.
PayloadBeforeEntry ==
    [][\A i \in 0..(HeaderOf(file').index_allocated_entries - 1) :
          FileEntry(file', i).location # 0 =>
              PayloadIn(file, FileEntry(file', i))]_vars

\* The header in the file points to an expanded index that holds three
\* entries, written through an append handle.
ExpandedIndexOnDisk ==
    /\ fdOpen /\ pc = "idle"
    /\ handle.open_flags = "GSD_OPEN_APPEND"
    /\ HeaderOf(file).index_allocated_entries > GSD_INITIAL_INDEX_SIZE
    /\ FileEntries(file) = 3
    /\ \A i \in 0..2 : PayloadIn(file, FileEntry(file, i))

(* ---------------------------- namelist slots --------------------------- *)

\* A name one character longer than a namelist slot holds.
LongName == [i \in 1..(NameMax + 1) |-> i]

\* The names of a caller that also uses an overlong name.
SlotNames == {<<2>>, LongName}

\* Runs of that caller: it ends the frames it wrote to and closes the handle
\* when nothing is left unwritten.
NextSlots ==
    \/ \E flags \in OpenFlags : Open(flags)
    \/ (~Unwritten /\ Close)
    \/ \E name \in SlotNames, shape \in ChunkShapes(nChunks) :
          nChunks < MaxChunks /\ WriteChunk(name, shape)
    \/ ExpandSync1
    \/ ExpandSync2
    \/ (Unwritten /\ EndFrame)
    \/ EndFrameSync

SpecSlots == Init /\ [][NextSlots]_vars

\* The index entry the running gsd_write_chunk made: the last one of the
\* handle, or the one waiting for gsd_expand_index to return.
NewEntry ==
    IF pc = "idle" THEN HandleEntry(handle.index_num_entries - 1) ELSE pend

\* C28: each successful gsd_append_name returns the number of names present
\* before the call as the id and stores the name, truncated to the slot's
\* length, in namelist slot id; no write_chunk or end_frame changes a slot
\* below namelist_num_entries or decreases namelist_num_entries.
NamelistAppendOnly ==
    [][(fdOpen /\ fdOpen') =>
        /\ handle'.namelist_num_entries >= handle.namelist_num_entries
        /\ \A i \in 1..handle.namelist_num_entries :
              handle'.namelist[i] = handle.namelist[i]
        /\ \A name \in SlotNames, shape \in ChunkShapes(nChunks) :
              (/\ WriteChunk(name, shape)
               /\ handle'.namelist_num_entries # handle.namelist_num_entries) =>
                  /\ handle'.namelist_num_entries = handle.namelist_num_entries + 1
                  /\ handle'.namelist[handle.namelist_num_entries + 1]
                        = Take(name, NameMax)
                  /\ NewEntry'.id = handle.namelist_num_entries]_vars

\* The overlong name sits truncated in slot 1, after another name in slot 0,
\* and both are committed.
LongNameInSlot1 ==
    /\ fdOpen /\ pc = "idle"
    /\ handle.namelist_written_entries = 2
    /\ handle.namelist[1] = <<2>>
    /\ handle.namelist[2] = Take(LongName, NameMax)
    /\ Len(handle.namelist[2]) < Len(LongName)

(* ----------------------------- unique names --------------------------- *)

\* C29: no two namelist entries hold the same name: after any sequence of
\* write_chunk and end_frame calls, also when the same not-yet-committed name
\* is written more than once within one frame, each name occupies exactly one
\* namelist slot.
NamesUnique ==
    fdOpen =>
        \A i, j \in 1..handle.namelist_num_entries :
            handle.namelist[i] = handle.namelist[j] => i = j

(* --------------------------- iteration ends --------------------------- *)

\* The calls of gsd_find_matching_chunk_name after which a caller's loop is
\* not followed any further.
MaxLoopCalls == 4

\* No loop over gsd_find_matching_chunk_name is running.
NoLoop == iter = NoIter

\* A caller starts the loop prev = NULL; prev = find_matching_chunk_name(match,
\* prev) on the open handle.
LoopStart ==
    /\ NoLoop
    /\ fdOpen
    /\ pc = "idle"
    /\ \E match \in ChunkNames :
          iter' = [match |-> match, prev |-> NULLNAME, out |-> <<>>, done |-> FALSE]
    /\ UNCHANGED <<file, durable, unsynced, handle, fdOpen, heap, pc, pend, ret,
                   committedLog, stagedLog, nChunks, sess, xp, created>>

\* Runs of a caller that writes chunks, ends frames and then iterates over
\* the names of the handle.
NextLoop ==
    \/ \E flags \in OpenFlags : NoLoop /\ Open(flags)
    \/ (NoLoop /\ ~Unwritten /\ Close)
    \/ \E name \in ChunkNames, shape \in ChunkShapes(nChunks) :
          NoLoop /\ nChunks < MaxChunks /\ WriteChunk(name, shape)
    \/ ExpandSync1
    \/ ExpandSync2
    \/ (NoLoop /\ Unwritten /\ EndFrame)
    \/ EndFrameSync
    \/ LoopStart
    \/ (~NoLoop /\ Len(iter.out) < MaxLoopCalls /\ IterStep)

SpecLoop == Init /\ [][NextLoop]_vars

\* C30: the loop prev = NULL; prev = find_matching_chunk_name(match, prev)
\* returns NULL after at most namelist_written_entries + 1 calls: at most
\* namelist_written_entries calls return a name.
LoopEnds ==
    Len(iter.out) <= handle.namelist_written_entries

(* ----------------------- append against read/write --------------------- *)

\* Runs of a caller that writes the i-th chunk of every frame under the i-th
\* name, ends every frame it wrote to and closes the handle with nothing
\* staged.
NextTwin ==
    \/ \E flags \in OpenFlags : Open(flags)
    \/ OrderlyClose
    \/ OrderlyWrite
    \/ ExpandSync1
    \/ ExpandSync2
    \/ OrderlyEndFrame
    \/ EndFrameSync

SpecTwin == Init /\ [][NextTwin]_vars

\* A successful gsd_write_chunk(name, shape) as a function of the handle and
\* the file, s = [handle, file], with the index expansion it may run.
WriteChunkOn(s, name, shape) ==
    LET found == gsd_get_id(s.handle, name)
        app == gsd_append_name(s.handle, name)
        id == IF found # UINT16_MAX THEN found ELSE app.id
        h1 == IF found # UINT16_MAX THEN s.handle ELSE app.handle
        size == shape.N * shape.M * gsd_sizeof_type(shape.type)
        index_entry ==
            [frame |-> h1.cur_frame, N |-> shape.N,
             location |-> h1.file_size, M |-> shape.M, id |-> id,
             type |-> shape.type, flags |-> 0]
        f1 == PWrite(s.file, index_entry.location,
                     [i \in 1..size |-> ByteCell(shape.data[i])])
        h2 == [h1 EXCEPT !.file_size = @ + size]
        x == ExpandIndexWrites(h2, f1)
    IN  IF h2.index_num_entries >= h2.header.index_allocated_entries
        THEN [handle |-> StoreEntry(x.handle, index_entry),
              file |-> PWrite(ApplyWrites(f1, x.writes), 0,
                              <<HeaderCell(x.handle.header)>>)]
        ELSE [handle |-> StoreEntry(h2, index_entry), file |-> f1]

\* A successful gsd_end_frame as a function of the handle and the file.
EndFrameOn(s) ==
    LET iw == IndexTailWrite(s.handle)
        nw == NamelistTailWrite(s.handle)
        h1 == [s.handle EXCEPT
                 !.cur_frame = @ + 1,
                 !.index_written_entries = s.handle.index_num_entries]
    IN  [handle |->
            IF nw # <<>>
            THEN [h1 EXCEPT
                    !.namelist_written_entries = h1.namelist_num_entries,
                    !.names = CHOOSE sorted \in gsd_sort_name_id_pairs(h1.names) : TRUE]
            ELSE h1,
         file |-> ApplyWrites(s.file, iw \o nw)]

\* The write_chunk calls of log, in order.
RECURSIVE WritesOn(_, _)
WritesOn(s, log) ==
    IF log = <<>> THEN s
    ELSE WritesOn(WriteChunkOn(s, Head(log).name,
                               [type |-> Head(log).type, N |-> Head(log).N,
                                M |-> Head(log).M, flags |-> 0,
                                data |-> Head(log).data]),
                  Tail(log))

\* The calls of frames frame .. last of log: each frame's write_chunk calls,
\* then its end_frame.
RECURSIVE FramesOn(_, _, _, _)
FramesOn(s, log, frame, last) ==
    IF frame > last THEN s
    ELSE LET InFrame(r) == r.frame = frame
         IN  FramesOn(EndFrameOn(WritesOn(s, SelectSeq(log, InFrame))),
                      log, frame + 1, last)

\* The calls of the running append session, made through a handle that opened
\* the session's first file with flags instead.
SessionThrough(flags) ==
    LET r == gsd_read_header(sess.file0, flags,
                             CHOOSE sorted \in OpenSorts(sess.file0) : TRUE)
    IN  FramesOn([handle |-> r.handle, file |-> sess.file0],
                 SubSeq(committedLog, sess.logStart + 1, Len(committedLog)),
                 sess.k, sess.k + sess.ended - 1)

\* An append session that has ended every frame it wrote.
AppendSessionAtFrameEnd ==
    /\ fdOpen /\ pc = "idle"
    /\ handle.open_flags = "GSD_OPEN_APPEND"
    /\ sess.flags = "GSD_OPEN_APPEND"
    /\ stagedLog = <<>>
    /\ ~Unwritten

\* C31: starting from the same file, the same successful write_chunk and
\* end_frame calls made through an append handle and through a read/write
\* handle leave, after each end_frame, the same file: header, live index
\* region, namelist region, payload bytes and file size, also across index
\* expansions.
AppendMatchesReadWrite ==
    AppendSessionAtFrameEnd =>
        LET rw == SessionThrough("GSD_OPEN_READWRITE")
        IN  /\ rw.file = file
            /\ Len(rw.file) = Len(file)
            /\ rw.handle.file_size = handle.file_size
            /\ rw.handle.header = handle.header
            /\ HeaderOf(rw.file) = HeaderOf(file)

\* An append session on a file with committed entries has ended two frames
\* and expanded the index, and the read/write handle leaves the same file.
AppendSessionExpanded ==
    /\ AppendSessionAtFrameEnd
    /\ sess.ended >= 2
    /\ sess.logStart > 0
    /\ HeaderOf(file).index_allocated_entries
          > HeaderOf(sess.file0).index_allocated_entries
    /\ SessionThrough("GSD_OPEN_READWRITE").file = file

(* ---------------------------- append-only file ------------------------- *)

\* Offset o of file f lies in the index block or the namelist block the
\* header of f points to.
InIndexOrNamelist(f, o) ==
    \/ /\ o >= HeaderOf(f).index_location
       /\ o < HeaderOf(f).index_location + HeaderOf(f).index_allocated_entries
    \/ /\ o >= HeaderOf(f).namelist_location
       /\ o < HeaderOf(f).namelist_location + HeaderOf(f).namelist_allocated_entries

\* Every pwrite of ws, applied in order to file f, targets the header, an
\* offset at or past the end of the file at the time of the write, or an
\* index or namelist slot that is still zero.
RECURSIVE WritesAppendOnly(_, _)
WritesAppendOnly(f, ws) ==
    IF ws = <<>> THEN TRUE
    ELSE /\ \A j \in 1..Len(Head(ws).data) :
               LET o == Head(ws).off + j - 1
               IN  \/ o = 0
                   \/ o >= Len(f)
                   \/ (InIndexOrNamelist(f, o) /\ CellAt(f, o) = Zero)
         /\ WritesAppendOnly(PWrite(f, Head(ws).off, Head(ws).data), Tail(ws))

\* The pwrites of the step: those gsd_write_chunk or gsd_end_frame added to
\* the unsynced writes, or the header rewrite after the first fsync of
\* gsd_expand_index.
StepWrites ==
    IF pc = "idle"
    THEN SubSeq(unsynced', Len(unsynced) + 1, Len(unsynced'))
    ELSE unsynced'

\* C32: no write_chunk or end_frame, with or without index expansion, changes
\* a byte of a written payload, of a committed index entry or of a committed
\* namelist slot, and every write targets the header, an offset >= the file
\* size at the time of the write, or index/namelist slots that were still
\* zero.
AppendOnlyFile ==
    [][(fdOpen /\ fdOpen' /\ Writable) =>
        /\ \A o \in 1..(Len(file) - 1) :
              CellAt(file, o) # Zero => CellAt(file', o) = CellAt(file, o)
        /\ WritesAppendOnly(file, StepWrites)]_vars

(* ------------------------------ tail cache ----------------------------- *)

\* The handle is an open append handle.
AppendHandle == fdOpen /\ handle.open_flags = "GSD_OPEN_APPEND"

\* Position i of the tail cache holds the entry of write_chunk call r.
CachedEntryOf(i, r) ==
    LET e == IndexAt(handle.index, i)
    IN  /\ e.frame = r.frame /\ e.type = r.type /\ e.N = r.N /\ e.M = r.M
        /\ e.location # 0
        /\ \A j \in 1..EntrySize(e) :
              AsByte(CellAt(file, e.location + j - 1)) = r.data[j]

\* The tail cache of an append handle: its capacity is at least 1 and covers
\* the staged entries, which sit at positions 0 .. Staged-1 in write order, and
\* index_written_entries <= index_num_entries <= index_allocated_entries.
TailCacheHolds ==
    AppendHandle =>
        /\ handle.append_index_size >= 1
        /\ handle.index_written_entries <= handle.index_num_entries
        /\ handle.index_num_entries <= handle.header.index_allocated_entries
        /\ Staged <= handle.append_index_size
        /\ pc = "idle" =>
              /\ Staged = Len(stagedLog)
              /\ Len(handle.index) >= Staged
              /\ \A i \in 1..Staged : CachedEntryOf(i - 1, stagedLog[i])

\* C33: in every state of an append handle the slot write_chunk uses,
\* index_num_entries - index_written_entries, is < append_index_size at the
\* store (the capacity starts at 1 and doubles), cache positions 0 ..
\* index_num_entries - index_written_entries - 1 hold the entries staged since
\* the last end_frame in write order, and index_written_entries <=
\* index_num_entries <= index_allocated_entries, the first two equal after
\* each successful end_frame.
AppendTailCache ==
    [][/\ TailCacheHolds'
       /\ (AppendHandle /\ AppendHandle') =>
            /\ handle'.index_num_entries # handle.index_num_entries =>
                 /\ handle'.index_num_entries = handle.index_num_entries + 1
                 /\ Staged < handle'.append_index_size
                 /\ handle'.append_index_size
                       \in {handle.append_index_size, 2 * handle.append_index_size}
            /\ handle'.index_num_entries = handle.index_num_entries =>
                 handle'.append_index_size = handle.append_index_size
            /\ (pc = "idle" /\ EndFrame) =>
                 handle'.index_written_entries = handle'.index_num_entries]_vars

\* An append handle on a file with committed entries holds three staged
\* entries in a tail cache that has doubled twice.
TailCacheDoubledTwice ==
    /\ AppendHandle /\ pc = "idle"
    /\ handle.index_written_entries > 0
    /\ Staged = 3
    /\ handle.append_index_size = 4
    /\ \A i \in 1..3 : CachedEntryOf(i - 1, stagedLog[i])

====
